---- MODULE Spec2Model ----
(***************************************************************************)
(* Verification model of the Asterisk AI voice agent core:                 *)
(*   - the provider session's structured tool-call gateway                 *)
(*     (src/src/providers/local.py), specification SpecGateway;            *)
(*   - the streaming playback engine                                       *)
(*     (src/src/core/streaming_playback_manager.py), specification         *)
(*     SpecStream, and its threshold computation, specification SpecClamp. *)
(* Coroutines are modelled as processes whose steps are the code between   *)
(* two awaits: an await on a collaborator, a socket or a sleep is a point  *)
(* where every other task may run.                                         *)
(***************************************************************************)
EXTENDS Integers, Sequences, FiniteSets, TLC

NULL == "null"

(***************************************************************************)
(* Bounds of the model.                                                    *)
(***************************************************************************)
\* LLM turns (llm_response messages) the receive loop takes in one behaviour.
MaxRequests == 1
\* start_session calls in one behaviour.
MaxSessions == 1
\* Stale llm_tool_response messages in one behaviour.
MaxStale == 1

\* barge_in notifications sent in one behaviour.
MaxBargeIns == 1

Rids == 1..MaxRequests

CallIds == {"call-1"}

(***************************************************************************)
(* Tool names, tool calls and LLM texts.                                   *)
(***************************************************************************)
\* "lookup" stands for a tool name the model made up.
ToolNames == {"hangup_call", "transfer", "lookup"}

AllowLists == {{}, {"hangup_call"}, {"hangup_call", "transfer"}}

TC(n, f) == [name |-> n, farewell |-> f]

\* tool_calls values a backend llm_tool_response may carry; a missing or
\* non-list field is read as no calls, like the empty list.
ToolCallLists ==
  { <<>>,
    <<TC("hangup_call", "Goodbye!")>>,
    <<TC("hangup_call", "Goodbye! (hangup_call tool executed)")>>,
    <<TC("lookup", "")>>,
    <<TC("transfer", ""), TC("hangup_call", "")>> }

\* Texts that carry tool-execution narration.
NarratedTexts == {"Goodbye! (hangup_call tool executed)"}

\* The text field an llm_tool_response may carry.
ResponseTexts == {"", "Goodbye then."} \cup NarratedTexts

\* Texts of llm_response messages, by shape.
LlmTexts == {"plain", "tc_hangup", "tc_lookup", "broken_hangup"}

\* parse_tool_calls: the tool calls the parser extracts from a text.
ParseToolCalls(text) ==
  CASE text = "tc_hangup"   -> <<TC("hangup_call", "Goodbye!")>>
    [] text = "tc_lookup"   -> <<TC("lookup", "")>>
    [] OTHER                -> <<>>

\* extract_text_without_tools: what is left to speak ("" when nothing is).
ExtractTextWithoutTools(text) ==
  CASE text = "plain"         -> "Thanks for calling."
    [] text = "broken_hangup" -> "broken_hangup"
    [] OTHER                  -> ""

\* parse_response_with_tools: (clean_text or None, tool_calls or None).
ParseResponseWithTools(text) ==
  [clean |-> IF ExtractTextWithoutTools(text) = "" THEN NULL
             ELSE ExtractTextWithoutTools(text),
   calls |-> ParseToolCalls(text)]

\* has_tool_intent_markers: the text names an allowed tool and opens a JSON
\* object, without parsing.
HasToolIntentMarkers(text, allowed) ==
  text = "broken_hangup" /\ "hangup_call" \in allowed

\* What the repair turn's answer parses to.
RepairTexts == {"NONE", "tc_hangup", "tc_lookup"}

(***************************************************************************)
(* Pure helpers of the provider session.                                   *)
(***************************************************************************)
TransferTools ==
  {"live_agent_transfer", "blind_transfer", "attended_transfer",
   "request_transfer", "transfer"}

ValidateToolCall(tc, available) == tc.name \in available

\* _emit_local_llm_result, first step: drop the calls not in the allow-list,
\* when there are calls and the allow-list is not empty.
FilterAllowed(calls, allowed) ==
  IF calls # <<>> /\ allowed # {}
    THEN SelectSeq(calls, LAMBDA tc : ValidateToolCall(tc, allowed))
    ELSE calls

\* _emit_local_llm_result, second step: drop transfer-type calls unless the
\* caller's last utterance shows transfer intent.
SuppressTransfer(calls, call_id, intent) ==
  IF calls # <<>> /\ call_id # NULL /\ ~intent
    THEN SelectSeq(calls, LAMBDA tc : tc.name \notin TransferTools)
    ELSE calls

ExtractHangupFarewell(calls) ==
  LET hits == SelectSeq(calls,
                LAMBDA tc : tc.name = "hangup_call" /\ tc.farewell # "")
  IN IF hits = <<>> THEN "" ELSE hits[1].farewell

\* _resolve_tool_policy
ResolveToolPolicy(configured, override, level) ==
  LET policy == IF override # NULL THEN override ELSE configured
  IN IF policy \in {"strict", "compatible", "off"} THEN policy
     ELSE IF level = "strict" THEN "strict"
     ELSE IF level = "none" THEN "off"
     ELSE "compatible"

(***************************************************************************)
(* State of the provider session (LocalProvider).                          *)
(***************************************************************************)
VARIABLES
  websocketOpen,        \* self.websocket is set and its state is OPEN
  listenerPc,           \* the receive loop: "idle", "dispatch_send", "repair_wait", "dead"
  listenerTurn,         \* the turn the receive loop is working on, or 0
  active_call_id,       \* self._active_call_id
  allowed_tools,        \* self._allowed_tools
  effective_tool_policy,\* self._effective_tool_policy
  mode,                 \* self._mode
  tool_gateway_enabled, \* self._tool_gateway_enabled
  staleDrops,           \* why each llm_tool_response dropped so far was stale
  barge_ins_sent,       \* the barge_in messages sent on the websocket, in order
  repairAnswer,         \* the backend's llm_response to the receive loop's repair request:
                        \* "none", "sent" (unread on the socket), "stale" (read and dropped)
  transfer_intent,      \* per call: the last final user transcript shows transfer intent
  pending_llm_tool_responses, \* request ids with an entry; the entry's call_id and
                        \* llm_text are turnCall and turnText of that id
  llm_tool_timeout_tasks,     \* request ids with a registered timeout task
  timeoutPc,            \* per request id: "none", "sleeping", "repair_wait", "cancelled", "done"
  nextTurn,             \* next turn / request id
  turnText,             \* per turn: the LLM text received
  turnCall,             \* per turn: the call id the turn is attributed to
  dispatched,           \* per turn: its llm_tool_request was sent
  finalized,            \* per turn: how often _emit_local_llm_result ran
  finalPath,            \* per turn: "none", "structured", "timeout", "parser"
  stoppedOrCleared,     \* per turn: stop_session / clear_active_call_id dropped its request
  events,               \* what on_event received, in order
  sessions              \* start_session calls so far

gwVars ==
  << websocketOpen, listenerPc, listenerTurn, active_call_id, allowed_tools,
     effective_tool_policy, mode, tool_gateway_enabled, transfer_intent,
     pending_llm_tool_responses, llm_tool_timeout_tasks, timeoutPc, nextTurn,
     turnText, turnCall, dispatched, finalized, finalPath, stoppedOrCleared,
     events, sessions,
     staleDrops, barge_ins_sent, repairAnswer >>

(***************************************************************************)
(* State of the streaming playback engine (StreamingPlaybackManager), for  *)
(* one call. A stream is named by the number of the start call that        *)
(* created it; 0 stands for "no entry" in the per-call dictionaries.       *)
(***************************************************************************)
VARIABLES
  cfg,                  \* streaming_config: the *_ms settings
  audio_transport,      \* self.audio_transport
  transport_ok,         \* the transport accepts frames (_send_audio_chunk returns True)
  startPc,              \* per start call: "idle", "get_session", "gating", "done", "failed"
  startType,            \* per start call: playback_type
  start_result,         \* per start call: the stream id returned, 0 for None / not yet
  active_streams,       \* self.active_streams[call_id]: a set with the record, or {}
  jitter_buffers,       \* self.jitter_buffers[call_id]: the stream whose queue is registered
  keepalive_tasks,      \* self.keepalive_tasks[call_id]: the stream whose keepalive is registered
  startup_ready,        \* self._startup_ready[call_id]: "absent", "False", "True"
  frame_remainders,     \* len(self.frame_remainders[call_id]), 0 when absent or empty
  buf,                  \* per stream: the content of the queue start created for it
  drainPc,              \* per stream: where its _stream_audio_loop task is
  cur,                  \* per stream: the chunk taken from audio_chunks, not yet put
  pend,                 \* per stream: bytes of `pending` not yet sent
  produced,             \* chunks the producer has delivered on the audio_chunks queues
  endPath,              \* per stream: how the drain loop was left
  kaPc,                 \* per stream: where its _keepalive_loop task is
  stopPc,               \* the caller of stop_streaming_playback
  stopSid,              \* stream_id read by that caller
  disturbances,         \* stop calls, timeouts and failures so far
  streaming_started,    \* session.streaming_started
  current_stream_id,    \* session.current_stream_id, 0 for None
  gating_tokens,        \* streams whose gating token is set in the session store
  last_streaming_error, \* session.last_streaming_error
  frames_sent,          \* per stream id: frames the transport took from the drain loop
  flushed,              \* per stream id: remainder frames the transport took from cleanup
  gating_cleared,       \* per stream id: calls that cleared its gating
  played,               \* the play_audio calls on the fallback player, in order
  reachedMin,           \* per stream: its queue has held the stream's
                        \* min_start_chunks at once
  stop_result,          \* what stop_streaming_playback returned: "none", "False", "True"
  first_send_logged,    \* call_id in self._first_send_logged
  reapPc,               \* the caller of cleanup_expired_streams: "idle",
                        \* "c_flush", "c_gate", "c_sess", "returned"
  reapSid,              \* the stream it found expired, 0 for none
  started_after_stop,   \* per start call: stop_streaming_playback had returned
                        \* True when the call was made
  remainder_of          \* which bytes frame_remainders[call_id] holds: the
                        \* stream that stored them and their offset in the
                        \* bytes that stream took off its queue

reapVars == << reapPc, reapSid >>

stVars ==
  << cfg, audio_transport, transport_ok, startPc, startType, start_result,
     active_streams, jitter_buffers, keepalive_tasks, startup_ready,
     frame_remainders, buf, drainPc, cur, pend, produced, endPath, kaPc, stopPc,
     stopSid, disturbances, streaming_started, current_stream_id, gating_tokens,
     last_streaming_error, frames_sent, flushed, gating_cleared, played,
     reachedMin, stop_result, first_send_logged, reapPc, reapSid,
     started_after_stop, remainder_of >>

(***************************************************************************)
(* State of the threshold computation taken on its own (SpecClamp).        *)
(***************************************************************************)
VARIABLES
  clCfg,                \* a streaming_config
  clRec                 \* the thresholds start stores in the stream record

clVars == << clCfg, clRec >>

(***************************************************************************)
(* State of the provider's connection to the backend (LocalProvider):      *)
(* connections, the tasks that use them and the outbound audio queue.      *)
(* Task 1 is the background reconnect task; 0 stands for None.             *)
(***************************************************************************)
VARIABLES
  port_open,            \* the backend's port accepts TCP connections
  faults,               \* how many faults the backend has produced so far
  auth_token,           \* self.auth_token is configured
  connState,            \* per connection: "none", "open", "closed"
  connAuth,             \* per connection: "none", "ok", "rejected" (auth handshake)
  nextConn,             \* the next connection _connect_ws returns
  websocket,            \* self.websocket: a connection, or 0
  server_unavailable,   \* self._server_unavailable
  was_connected,        \* self._was_connected
  listener_task,        \* self._listener_task: a task, or 0
  sender_task,          \* self._sender_task: a task, or 0
  background_reconnect_task, \* self._background_reconnect_task: a task, or 0
  taskKind,             \* per task: "none", "listener", "sender", "background", "session"
  taskPc,               \* per task: the await it is suspended at, or how it ended
  taskConn,             \* per task: the connection it iterates or has just opened
  attempt,              \* per task: the attempt of the _reconnect it runs
  held,                 \* per sender task: the batch it took from the queue
  nextTask,             \* the next task create_task returns
  send_queue,           \* self._send_queue: chunks, oldest first
  nextChunk,            \* the next chunk send_audio enqueues
  wire,                 \* what the backend received: connection and batch, in order
  sends,                \* per chunk: websocket.send calls for the batch it heads
  call_ends,            \* how many times stop_session or clear_active_call_id ended a call
  send_audio_pc         \* the caller of send_audio: "idle", or "put_wait" at the queue's put

cnVars ==
  << port_open, faults, auth_token, connState, connAuth, nextConn,
     websocket, server_unavailable, was_connected, listener_task,
     sender_task, background_reconnect_task, taskKind, taskPc, taskConn,
     attempt, held, nextTask, send_queue, nextChunk, wire, sends,
     call_ends, send_audio_pc >>

(***************************************************************************)
(* State of a pure function taken on its own (SpecFn).                     *)
(***************************************************************************)
VARIABLES
  fnCall,               \* the function called and its arguments
  fnResult              \* what it returned, once it has

pfVars == << fnCall, fnResult >>

nonPfVars == << gwVars, stVars, clVars, cnVars >>

vars == << gwVars, stVars, clVars, cnVars, pfVars >>

nonGwVars == << stVars, clVars, cnVars, pfVars >>

GwInit ==
  /\ websocketOpen = TRUE
  /\ listenerPc = "idle"
  /\ listenerTurn = 0
  /\ active_call_id = NULL
  /\ allowed_tools = {}
  /\ effective_tool_policy = "compatible"
  /\ mode \in {"full", "stt"}
  /\ tool_gateway_enabled \in BOOLEAN
  /\ transfer_intent = [c \in CallIds |-> FALSE]
  /\ pending_llm_tool_responses = {}
  /\ llm_tool_timeout_tasks = {}
  /\ timeoutPc = [r \in Rids |-> "none"]
  /\ nextTurn = 1
  /\ turnText = [r \in Rids |-> NULL]
  /\ turnCall = [r \in Rids |-> NULL]
  /\ dispatched = [r \in Rids |-> FALSE]
  /\ finalized = [r \in Rids |-> 0]
  /\ finalPath = [r \in Rids |-> "none"]
  /\ stoppedOrCleared = [r \in Rids |-> FALSE]
  /\ events = << >>
  /\ sessions = 0
  /\ staleDrops = << >>
  /\ barge_ins_sent = << >>
  /\ repairAnswer = "none"

\* A faulty variant reads the entry and leaves it in the table.
PopPending_Keep(p, rid) == p

\* dict.pop(request_id, None): the table without the entry.
PopPending(p, rid) == p \ {rid}

\* A faulty variant of IsStructuredToolGatewayActive: the mode is not looked at.
IsStructuredToolGatewayActive_AnyMode ==
  /\ tool_gateway_enabled
  /\ effective_tool_policy # "off"
  /\ allowed_tools # {}

\* _is_structured_tool_gateway_active
IsStructuredToolGatewayActive ==
  /\ tool_gateway_enabled
  /\ mode = "full"
  /\ effective_tool_policy # "off"
  /\ allowed_tools # {}

\* A faulty variant of EventOrder: the ToolCall event is handed over first.
EventOrder_ToolCallFirst(transcript, toolcall) == toolcall \o transcript

\* The order in which _emit_local_llm_result awaits on_event: the transcript
\* event (lines 405-413), then the ToolCall event (lines 428-435).
EventOrder(transcript, toolcall) == transcript \o toolcall

\* The events one run of _emit_local_llm_result hands to on_event: the
\* transcript first (when there is text), then the ToolCall event (when calls
\* are left). The field allowed records the allow-list at the time of the
\* event.
EmitEvents(turn, call_id, llm_text, clean_text, tool_calls) ==
  LET base     == IF clean_text # NULL THEN clean_text ELSE llm_text
      filtered == FilterAllowed(tool_calls, allowed_tools)
      intent   == IF call_id \in CallIds THEN transfer_intent[call_id] ELSE FALSE
      kept     == SuppressTransfer(filtered, call_id, intent)
      farewell == ExtractHangupFarewell(kept)
      text     == IF farewell # "" THEN farewell ELSE base
  IN EventOrder(
       IF text # ""
         THEN << [type |-> "agent_transcript", turn |-> turn,
                  call_id |-> call_id, text |-> text,
                  tool_calls |-> << >>, allowed |-> {}] >>
         ELSE << >>,
       IF kept # << >>
         THEN << [type |-> "ToolCall", turn |-> turn,
                  call_id |-> call_id, text |-> text, tool_calls |-> kept,
                  allowed |-> allowed_tools] >>
         ELSE << >>)

\* One run of _emit_local_llm_result for a turn.
EmitLocalLlmResult(turn, call_id, llm_text, clean_text, tool_calls, path) ==
  /\ events' = events \o EmitEvents(turn, call_id, llm_text, clean_text, tool_calls)
  /\ finalized' = [finalized EXCEPT ![turn] = @ + 1]
  /\ finalPath' = [finalPath EXCEPT ![turn] = path]

\* _process_llm_text_fallback asks for a repair turn.
NeedsRepair(text) ==
  /\ effective_tool_policy # "off"
  /\ ParseToolCalls(text) = << >>
  /\ allowed_tools # {}
  /\ HasToolIntentMarkers(text, allowed_tools)

\* _process_llm_text_fallback when no repair turn is waited for: the parser's
\* result, without its tool calls when the policy is off or the repair
\* request could not be sent.
FallbackEmit(turn, call_id, text, path) ==
  LET parsed == ParseResponseWithTools(text)
      calls  == IF effective_tool_policy = "off" THEN << >> ELSE parsed.calls
  IN EmitLocalLlmResult(turn, call_id, text, parsed.clean, calls, path)

(***************************************************************************)
(* The receive loop (_receive_loop) and what it dispatches to.             *)
(***************************************************************************)
gwConfigVars == << mode, tool_gateway_enabled >>

\* _process_llm_text_fallback run by the receive loop itself: either it
\* finishes at once, or it waits for the repair turn's answer.
ListenerFallback(t, call, text) ==
  IF NeedsRepair(text) /\ websocketOpen'
    THEN /\ listenerPc' = "repair_wait"
         /\ listenerTurn' = t
         /\ UNCHANGED << events, finalized, finalPath >>
    ELSE /\ listenerPc' = "idle"
         /\ listenerTurn' = 0
         /\ FallbackEmit(t, call, text, "parser")

\* An llm_response that is not the answer to a repair turn (lines 1382-1412).
RecvLlmResponse(text, msgCall) ==
  LET t    == nextTurn
      call == IF msgCall # NULL THEN msgCall ELSE active_call_id
  IN /\ UNCHANGED nonGwVars
     /\ listenerPc = "idle"
     /\ websocketOpen
     /\ nextTurn <= MaxRequests
     /\ nextTurn' = nextTurn + 1
     /\ turnText' = [turnText EXCEPT ![t] = text]
     /\ turnCall' = [turnCall EXCEPT ![t] = call]
     /\ UNCHANGED << websocketOpen, active_call_id, allowed_tools,
                     effective_tool_policy, transfer_intent,
                     llm_tool_timeout_tasks, timeoutPc, stoppedOrCleared,
                     sessions, dispatched, gwConfigVars, staleDrops, barge_ins_sent, repairAnswer >>
     /\ IF IsStructuredToolGatewayActive
          THEN \* _dispatch_llm_tool_gateway_request up to its send
               /\ pending_llm_tool_responses' = pending_llm_tool_responses \cup {t}
               /\ listenerPc' = "dispatch_send"
               /\ listenerTurn' = t
               /\ UNCHANGED << events, finalized, finalPath >>
          ELSE /\ UNCHANGED pending_llm_tool_responses
               /\ ListenerFallback(t, call, text)

\* The llm_tool_request was sent: the timeout task is created (line 533).
DispatchSendOk ==
  /\ UNCHANGED nonGwVars
  /\ listenerPc = "dispatch_send"
  /\ timeoutPc' = [timeoutPc EXCEPT ![listenerTurn] = "sleeping"]
  /\ llm_tool_timeout_tasks' = llm_tool_timeout_tasks \cup {listenerTurn}
  /\ dispatched' = [dispatched EXCEPT ![listenerTurn] = TRUE]
  /\ listenerPc' = "idle"
  /\ listenerTurn' = 0
  /\ UNCHANGED << websocketOpen, active_call_id, allowed_tools,
                  effective_tool_policy, transfer_intent,
                  pending_llm_tool_responses, nextTurn, turnText, turnCall,
                  finalized, finalPath, stoppedOrCleared, events,
                  sessions, gwConfigVars, staleDrops, barge_ins_sent, repairAnswer >>

\* The send raised: the entry is removed and the receive loop falls back to
\* the parser path (lines 505-508, 1403-1412).
DispatchSendFails ==
  LET t == listenerTurn
  IN /\ UNCHANGED nonGwVars
     /\ listenerPc = "dispatch_send"
     /\ websocketOpen' = FALSE
     /\ pending_llm_tool_responses' = PopPending(pending_llm_tool_responses, t)
     /\ ListenerFallback(t, turnCall[t], turnText[t])
     /\ UNCHANGED << active_call_id, allowed_tools, effective_tool_policy,
                     transfer_intent, llm_tool_timeout_tasks, timeoutPc,
                     nextTurn, turnText, turnCall, stoppedOrCleared, sessions,
                     dispatched, gwConfigVars, staleDrops, barge_ins_sent, repairAnswer >>

\* Why _handle_llm_tool_response finds nothing to claim: the request_id is
\* empty, was never issued, or its entry has been taken already.
StaleKind(rid) ==
  IF rid = 0 THEN "empty"
  ELSE IF rid >= nextTurn THEN "unknown"
  ELSE "claimed"

\* A faulty variant of StaleCancels: the timeout is cancelled before the
\* table is looked at.
StaleCancels_Requested(rid) == {rid} \ {0}

\* The timeout tasks a stale llm_tool_response cancels: none, the handler
\* returns before _cancel_gateway_timeout (lines 537-544).
StaleCancels(rid) == {}

\* _cancel_gateway_timeout for a set of request ids: the registered tasks
\* that still sleep are cancelled.
CancelTimeouts(rids) ==
  /\ llm_tool_timeout_tasks' = llm_tool_timeout_tasks \ rids
  /\ timeoutPc' = [r \in Rids |->
        IF r \in rids /\ r \in llm_tool_timeout_tasks /\ timeoutPc[r] = "sleeping"
          THEN "cancelled" ELSE timeoutPc[r]]

\* _handle_llm_tool_response, called by the receive loop for an
\* llm_tool_response. rid 0 stands for a missing or empty request_id;
\* wellFormed is FALSE when tool_parse_failures or repair_attempts is not a
\* number, so that int() raises after the entry was claimed.
RecvLlmToolResponse(rid, calls, text, wellFormed) ==
  /\ UNCHANGED nonGwVars
  /\ listenerPc = "idle"
  /\ websocketOpen
  /\ UNCHANGED << websocketOpen, active_call_id, allowed_tools,
                  effective_tool_policy, transfer_intent, nextTurn, turnText,
                  turnCall, dispatched, stoppedOrCleared, sessions, listenerTurn,
                  gwConfigVars, barge_ins_sent, repairAnswer >>
  /\ IF rid = 0 \/ rid \notin pending_llm_tool_responses
       THEN \* stale: dropped (lines 537-543)
            /\ Len(staleDrops) < MaxStale
            /\ staleDrops' = Append(staleDrops, StaleKind(rid))
            /\ CancelTimeouts(StaleCancels(rid))
            /\ UNCHANGED << pending_llm_tool_responses, listenerPc, events,
                            finalized, finalPath >>
       ELSE /\ UNCHANGED staleDrops
            /\ pending_llm_tool_responses' = PopPending(pending_llm_tool_responses, rid)
            /\ CancelTimeouts({rid})
            /\ IF wellFormed
                 THEN LET parsed == ParseResponseWithTools(turnText[rid])
                          clean  == IF text # "" THEN text
                                    ELSE IF parsed.clean # NULL THEN parsed.clean
                                    ELSE turnText[rid]
                          call   == IF turnCall[rid] # NULL THEN turnCall[rid]
                                    ELSE active_call_id
                      IN /\ EmitLocalLlmResult(rid, call, turnText[rid],
                                               clean, calls, "structured")
                         /\ UNCHANGED listenerPc
                 ELSE \* the exception leaves the receive loop (line 1440)
                      /\ listenerPc' = "dead"
                      /\ UNCHANGED << events, finalized, finalPath >>

\* A final stt_result without a call_id: the utterance is recorded as the
\* active call's last one (lines 1366-1371).
RecvSttResult(intent) ==
  /\ UNCHANGED nonGwVars
  /\ listenerPc = "idle"
  /\ websocketOpen
  /\ active_call_id # NULL
  /\ transfer_intent' = [transfer_intent EXCEPT ![active_call_id] = intent]
  /\ UNCHANGED << websocketOpen, listenerPc, listenerTurn, active_call_id,
                  allowed_tools, effective_tool_policy,
                  pending_llm_tool_responses, llm_tool_timeout_tasks, timeoutPc,
                  nextTurn, turnText, turnCall, dispatched, finalized, finalPath,
                  stoppedOrCleared, events, sessions, gwConfigVars, staleDrops, barge_ins_sent, repairAnswer >>

\* The repair turn the receive loop waits for times out: only the receive
\* loop could have delivered its answer (lines 195-199).
ListenerRepairTimeout ==
  LET t == listenerTurn
  IN /\ UNCHANGED nonGwVars
     /\ listenerPc = "repair_wait"
     /\ listenerPc' = "idle"
     /\ listenerTurn' = 0
     /\ FallbackEmit(t, turnCall[t], turnText[t], "parser")
     /\ UNCHANGED << websocketOpen, active_call_id, allowed_tools,
                     effective_tool_policy, transfer_intent,
                     pending_llm_tool_responses, llm_tool_timeout_tasks,
                     timeoutPc, nextTurn, turnText, turnCall, dispatched,
                     stoppedOrCleared, sessions, gwConfigVars, staleDrops, barge_ins_sent, repairAnswer >>

\* The backend answers the repair request the receive loop is waiting on
\* (_request_llm_text, lines 193-195): the llm_response lies on the socket,
\* which only the receive loop reads.
BackendAnswersListenerRepair ==
  /\ UNCHANGED nonGwVars
  /\ listenerPc = "repair_wait"
  /\ websocketOpen
  /\ repairAnswer = "none"
  /\ repairAnswer' = "sent"
  /\ UNCHANGED << websocketOpen, listenerPc, listenerTurn, active_call_id,
                  allowed_tools, effective_tool_policy, transfer_intent,
                  pending_llm_tool_responses, llm_tool_timeout_tasks, timeoutPc,
                  nextTurn, turnText, turnCall, dispatched, finalized, finalPath,
                  stoppedOrCleared, events, sessions, gwConfigVars, staleDrops,
                  barge_ins_sent >>

\* The receive loop, back at the socket, reads the answer to a repair
\* request that is no longer pending and drops it (lines 1383-1391).
RecvStaleRepairResponse ==
  /\ UNCHANGED nonGwVars
  /\ listenerPc = "idle"
  /\ websocketOpen
  /\ repairAnswer = "sent"
  /\ repairAnswer' = "stale"
  /\ UNCHANGED << websocketOpen, listenerPc, listenerTurn, active_call_id,
                  allowed_tools, effective_tool_policy, transfer_intent,
                  pending_llm_tool_responses, llm_tool_timeout_tasks, timeoutPc,
                  nextTurn, turnText, turnCall, dispatched, finalized, finalPath,
                  stoppedOrCleared, events, sessions, gwConfigVars, staleDrops,
                  barge_ins_sent >>

(***************************************************************************)
(* The gateway's timeout task (_timeout_fallback, lines 510-531).          *)
(***************************************************************************)
\* The sleep is over: the task claims the entry, or finds it gone; with the
\* entry it runs the parser fallback on the stored text.
TimeoutFires(r) ==
  /\ UNCHANGED nonGwVars
  /\ timeoutPc[r] = "sleeping"
  /\ UNCHANGED << websocketOpen, listenerPc, listenerTurn, active_call_id,
                  allowed_tools, effective_tool_policy, transfer_intent,
                  nextTurn, turnText, turnCall, dispatched, stoppedOrCleared,
                  sessions, gwConfigVars, staleDrops, barge_ins_sent, repairAnswer >>
  /\ IF r \notin pending_llm_tool_responses
       THEN /\ timeoutPc' = [timeoutPc EXCEPT ![r] = "done"]
            /\ llm_tool_timeout_tasks' = llm_tool_timeout_tasks \ {r}
            /\ UNCHANGED << pending_llm_tool_responses, events, finalized, finalPath >>
       ELSE /\ pending_llm_tool_responses' = PopPending(pending_llm_tool_responses, r)
            /\ IF NeedsRepair(turnText[r]) /\ websocketOpen
                 THEN /\ timeoutPc' = [timeoutPc EXCEPT ![r] = "repair_wait"]
                      /\ UNCHANGED << llm_tool_timeout_tasks, events, finalized,
                                      finalPath >>
                 ELSE /\ timeoutPc' = [timeoutPc EXCEPT ![r] = "done"]
                      /\ llm_tool_timeout_tasks' = llm_tool_timeout_tasks \ {r}
                      /\ FallbackEmit(r, turnCall[r], turnText[r], "timeout")

\* The receive loop delivers the repair turn's answer to the waiting timeout
\* task, which validates the repaired calls and emits
\* (_attempt_tool_call_repair, lines 250-286; lines 1383-1388).
TimeoutRepairAnswer(r, rtext) ==
  LET parsed   == ParseResponseWithTools(turnText[r])
      repaired == SelectSeq(ParseToolCalls(rtext),
                            LAMBDA tc : ValidateToolCall(tc, allowed_tools))
  IN /\ UNCHANGED nonGwVars
     /\ timeoutPc[r] = "repair_wait"
     /\ listenerPc = "idle"
     /\ websocketOpen
     /\ timeoutPc' = [timeoutPc EXCEPT ![r] = "done"]
     /\ llm_tool_timeout_tasks' = llm_tool_timeout_tasks \ {r}
     /\ EmitLocalLlmResult(r, turnCall[r], turnText[r], parsed.clean, repaired,
                           "timeout")
     /\ UNCHANGED << websocketOpen, listenerPc, listenerTurn, active_call_id,
                     allowed_tools, effective_tool_policy, transfer_intent,
                     pending_llm_tool_responses, nextTurn, turnText, turnCall,
                     dispatched, stoppedOrCleared, sessions, gwConfigVars, staleDrops, barge_ins_sent, repairAnswer >>

\* The repair turn of the timeout task gets no answer in time.
TimeoutRepairTimeout(r) ==
  /\ UNCHANGED nonGwVars
  /\ timeoutPc[r] = "repair_wait"
  /\ timeoutPc' = [timeoutPc EXCEPT ![r] = "done"]
  /\ llm_tool_timeout_tasks' = llm_tool_timeout_tasks \ {r}
  /\ FallbackEmit(r, turnCall[r], turnText[r], "timeout")
  /\ UNCHANGED << websocketOpen, listenerPc, listenerTurn, active_call_id,
                  allowed_tools, effective_tool_policy, transfer_intent,
                  pending_llm_tool_responses, nextTurn, turnText, turnCall,
                  dispatched, stoppedOrCleared, sessions, gwConfigVars, staleDrops, barge_ins_sent, repairAnswer >>

(***************************************************************************)
(* Session operations called by the engine.                                *)
(***************************************************************************)
\* stop_session (lines 1239-1242): every pending request is dropped.
StopSession ==
  /\ UNCHANGED nonGwVars
  /\ pending_llm_tool_responses # {}
  /\ pending_llm_tool_responses' = {}
  /\ CancelTimeouts(pending_llm_tool_responses)
  /\ stoppedOrCleared' = [r \in Rids |->
        stoppedOrCleared[r] \/ r \in pending_llm_tool_responses]
  /\ UNCHANGED << websocketOpen, listenerPc, listenerTurn, active_call_id,
                  allowed_tools, effective_tool_policy, transfer_intent,
                  nextTurn, turnText, turnCall, dispatched, finalized, finalPath,
                  events, sessions, gwConfigVars, staleDrops, barge_ins_sent, repairAnswer >>

\* clear_active_call_id (lines 1249-1266): the pending requests of the
\* active call are dropped.
ClearActiveCallId ==
  LET old   == active_call_id
      stale == {r \in pending_llm_tool_responses : turnCall[r] = old}
  IN /\ UNCHANGED nonGwVars
     /\ old # NULL
     /\ active_call_id' = NULL
     /\ transfer_intent' = [transfer_intent EXCEPT ![old] = FALSE]
     /\ pending_llm_tool_responses' = pending_llm_tool_responses \ stale
     /\ CancelTimeouts(stale)
     /\ stoppedOrCleared' = [r \in Rids |-> stoppedOrCleared[r] \/ r \in stale]
     /\ UNCHANGED << websocketOpen, listenerPc, listenerTurn, allowed_tools,
                     effective_tool_policy, nextTurn, turnText, turnCall,
                     dispatched, finalized, finalPath, events, sessions,
                     gwConfigVars, staleDrops, barge_ins_sent, repairAnswer >>

\* start_session on an open connection (lines 850-867) with
\* _prime_runtime_status_and_context (lines 910-925): the call becomes the
\* active one, a finished receive loop is restarted, the allow-list and the
\* policy are taken from the context.
StartSession(call, tools, configured, override, level) ==
  /\ UNCHANGED nonGwVars
  /\ sessions < MaxSessions
  /\ websocketOpen
  /\ listenerPc \in {"idle", "dead"}
  /\ sessions' = sessions + 1
  /\ active_call_id' = call
  /\ transfer_intent' =
       IF active_call_id # NULL /\ active_call_id # call
         THEN [transfer_intent EXCEPT ![active_call_id] = FALSE]
         ELSE transfer_intent
  /\ listenerPc' = "idle"
  /\ allowed_tools' = tools
  /\ effective_tool_policy' = ResolveToolPolicy(configured, override, level)
  /\ UNCHANGED << websocketOpen, listenerTurn, pending_llm_tool_responses,
                  llm_tool_timeout_tasks, timeoutPc, nextTurn, turnText,
                  turnCall, dispatched, finalized, finalPath, stoppedOrCleared,
                  events, gwConfigVars, staleDrops, barge_ins_sent, repairAnswer >>

\* The connection closes under the receive loop: the loop leaves its
\* message loop (line 1419).
ConnectionClosed ==
  /\ UNCHANGED nonGwVars
  /\ websocketOpen
  /\ listenerPc = "idle"
  /\ websocketOpen' = FALSE
  /\ listenerPc' = "dead"
  /\ UNCHANGED << listenerTurn, active_call_id, allowed_tools,
                  effective_tool_policy, transfer_intent,
                  pending_llm_tool_responses, llm_tool_timeout_tasks, timeoutPc,
                  nextTurn, turnText, turnCall, dispatched, finalized, finalPath,
                  stoppedOrCleared, events, sessions, gwConfigVars, staleDrops, barge_ins_sent, repairAnswer >>

\* A text message that is malformed or unrecognized. Text that is not JSON
\* is logged and dropped (line 1415), an object of unknown type is logged
\* (line 1413). JSON that is not an object has no get, and a known type
\* whose field has the wrong type (an stt_result whose text is a number has
\* no strip, line 1364) raises too: only JSONDecodeError is caught inside
\* the loop, so the exception leaves it (line 1440).
MalformedKinds == {"non_json", "unknown_type", "not_object", "wrong_field_type"}

RecvMalformed(kind) ==
  /\ UNCHANGED nonGwVars
  /\ websocketOpen
  /\ listenerPc = "idle"
  /\ listenerPc' = IF kind \in {"non_json", "unknown_type"} THEN "idle" ELSE "dead"
  /\ UNCHANGED << websocketOpen, listenerTurn, active_call_id, allowed_tools,
                  effective_tool_policy, transfer_intent,
                  pending_llm_tool_responses, llm_tool_timeout_tasks, timeoutPc,
                  nextTurn, turnText, turnCall, dispatched, finalized, finalPath,
                  stoppedOrCleared, events, sessions, gwConfigVars, staleDrops, barge_ins_sent, repairAnswer >>

\* notify_barge_in (lines 119-142): nothing is sent without an OPEN
\* websocket or without a call id (the argument, else the active call); the
\* message holds the type and the call id; a failing send is logged only.
BargeInMessage(target) == [type |-> "barge_in", call_id |-> target]

NotifyBargeIn(call_id, sendOk) ==
  /\ UNCHANGED nonGwVars
  /\ Len(barge_ins_sent) < MaxBargeIns
  /\ LET target == IF call_id # NULL THEN call_id ELSE active_call_id
     IN barge_ins_sent' =
          IF websocketOpen /\ target # NULL /\ sendOk
            THEN Append(barge_ins_sent, BargeInMessage(target))
            ELSE barge_ins_sent
  /\ UNCHANGED << websocketOpen, listenerPc, listenerTurn, active_call_id,
                  allowed_tools, effective_tool_policy, transfer_intent,
                  pending_llm_tool_responses, llm_tool_timeout_tasks, timeoutPc,
                  nextTurn, turnText, turnCall, dispatched, finalized, finalPath,
                  stoppedOrCleared, events, sessions, gwConfigVars, staleDrops, repairAnswer >>

GwNext ==
  \/ \E c \in CallIds \cup {NULL} : \E ok \in BOOLEAN : NotifyBargeIn(c, ok)
  \/ \E text \in LlmTexts : RecvLlmResponse(text, NULL)
  \/ DispatchSendOk
  \/ DispatchSendFails
  \/ \E rid \in 0..MaxRequests, calls \in ToolCallLists,
        text \in ResponseTexts, wf \in BOOLEAN :
        RecvLlmToolResponse(rid, calls, text, wf)
  \/ \E i \in BOOLEAN : RecvSttResult(i)
  \/ \E kind \in MalformedKinds : RecvMalformed(kind)
  \/ ListenerRepairTimeout
  \/ BackendAnswersListenerRepair
  \/ RecvStaleRepairResponse
  \/ \E r \in Rids : TimeoutFires(r)
  \/ \E r \in Rids, rt \in RepairTexts : TimeoutRepairAnswer(r, rt)
  \/ \E r \in Rids : TimeoutRepairTimeout(r)
  \/ StopSession
  \/ ClearActiveCallId
  \/ \E c \in CallIds, tools \in AllowLists, configured \in {"auto", "off"},
        ov \in {NULL, "strict"}, lv \in {"strict", "partial", "none", "unknown"} :
        StartSession(c, tools, configured, ov, lv)
  \/ ConnectionClosed

(***************************************************************************)
(* The streaming playback engine: bounds, configuration, thresholds.       *)
(***************************************************************************)
\* start_streaming_playback calls in one behaviour.
MaxStarts == 2
\* Chunks the producer puts on the audio_chunks queues in one behaviour.
MaxChunks == 2
\* Disturbances in one behaviour: stop_streaming_playback calls, timeouts of
\* the drain and keepalive loops, a transport failure, a refused gating.
MaxDisturbances == 1

Streams == 1..MaxStarts

\* frame_size, in units of half a 20 ms frame (80 bytes of 8 kHz mu-law).
FrameSize == 2

\* Chunk lengths in the same unit: one frame, one frame and a half.
ChunkLens == {FrameSize, FrameSize + 1}

PlaybackTypes == {"greeting", "response"}

Max(a, b) == IF a >= b THEN a ELSE b

Min(a, b) == IF a <= b THEN a ELSE b

\* math.ceil(a / b) for a >= 0 and b >= 1
CeilDiv(a, b) == (a + b - 1) \div b

\* __init__: self.min_start_chunks
MinStartChunks(c) ==
  Max(1, CeilDiv(Max(0, c.min_start_ms), Max(1, c.chunk_size_ms)))

\* __init__: self.low_watermark_chunks
LowWatermarkChunks(c) ==
  Max(0, CeilDiv(Max(0, c.low_watermark_ms), Max(1, c.chunk_size_ms)))

\* __init__: self.greeting_min_start_chunks
GreetingMinStartChunks(c) ==
  IF c.greeting_min_start_ms > 0
    THEN Max(1, CeilDiv(c.greeting_min_start_ms, Max(1, c.chunk_size_ms)))
    ELSE MinStartChunks(c)

\* start_streaming_playback: jb_chunks, the capacity of the jitter buffer
JbChunks(c) ==
  Max(1, CeilDiv(Max(0, c.jitter_buffer_ms), Max(1, c.chunk_size_ms)))

\* A faulty variant takes the configured value as it is.
StreamMinStart_Unclamped(c, type) ==
  IF type = "greeting" THEN GreetingMinStartChunks(c) ELSE MinStartChunks(c)

\* start_streaming_playback: min_start_chunks of the stream record
StreamMinStart(c, type) ==
  LET configured_min_start ==
        IF type = "greeting" THEN GreetingMinStartChunks(c)
        ELSE MinStartChunks(c)
  IN Max(1, Min(configured_min_start, JbChunks(c)))

\* start_streaming_playback: low_watermark_chunks of the stream record
StreamLowWatermark(c) ==
  LET configured_low_watermark == LowWatermarkChunks(c)
      max_drainable == Max(0, JbChunks(c) - 1)
      clamped == Min(configured_low_watermark, max_drainable)
  IN IF configured_low_watermark # 0
       THEN (IF clamped <= 0 THEN 0 ELSE clamped)
       ELSE 0

\* The record start stores in active_streams[call_id].
StreamRecord(sid, type, c) ==
  [stream_id            |-> sid,
   playback_type        |-> type,
   min_start_chunks     |-> StreamMinStart(c, type),
   low_watermark_chunks |-> StreamLowWatermark(c),
   jitter_buffer_chunks |-> JbChunks(c)]

\* The configurations of the engine's behaviours: a jitter buffer of three
\* chunks, warm-up at two chunks (one for a greeting), low watermark at two.
StreamConfigs ==
  { [chunk_size_ms |-> 20, jitter_buffer_ms |-> 60, min_start_ms |-> 40,
     greeting_min_start_ms |-> 20, low_watermark_ms |-> 40] }

\* Configurations whose jitter buffer is smaller than the warm-up the
\* engine is configured with: one chunk of buffer, warm-up at two chunks.
SmallBufferConfigs ==
  { [chunk_size_ms |-> 20, jitter_buffer_ms |-> 20, min_start_ms |-> 40,
     greeting_min_start_ms |-> 20, low_watermark_ms |-> 40] }

\* The configurations the threshold computation is run on.
ClampConfigs ==
  [chunk_size_ms         : {0, 10, 20},
   jitter_buffer_ms      : {-20, 0, 30, 50, 100},
   min_start_ms          : {0, 20, 120},
   greeting_min_start_ms : {-10, 0, 40, 200},
   low_watermark_ms      : {0, 20, 80, 200}]

\* No remainder is stored for the call.
NoRemainder == [stream |-> 0, offset |-> 0]

NoRecord ==
  [stream_id |-> 0, playback_type |-> "none", min_start_chunks |-> 0,
   low_watermark_chunks |-> 0, jitter_buffer_chunks |-> 0]

\* The engine after __init__, whatever its configuration: no stream, no
\* task, nothing sent.
StInitRest ==
  /\ audio_transport \in {"audiosocket", "externalmedia"}
  /\ transport_ok = TRUE
  /\ startPc = [k \in Streams |-> "idle"]
  /\ startType = [k \in Streams |-> "none"]
  /\ start_result = [k \in Streams |-> 0]
  /\ active_streams = {}
  /\ jitter_buffers = 0
  /\ keepalive_tasks = 0
  /\ startup_ready = "absent"
  /\ frame_remainders = 0
  /\ buf = [s \in Streams |-> << >>]
  /\ drainPc = [s \in Streams |-> "none"]
  /\ cur = [s \in Streams |-> << >>]
  /\ pend = [s \in Streams |-> 0]
  /\ produced = 0
  /\ endPath = [s \in Streams |-> "none"]
  /\ kaPc = [s \in Streams |-> "none"]
  /\ stopPc = "idle"
  /\ stopSid = 0
  /\ disturbances = 0
  /\ streaming_started = FALSE
  /\ current_stream_id = 0
  /\ gating_tokens = {}
  /\ last_streaming_error = "none"
  /\ frames_sent = [s \in Streams |-> 0]
  /\ flushed = [s \in Streams |-> 0]
  /\ gating_cleared = [s \in Streams |-> 0]
  /\ played = << >>
  /\ reachedMin = [s \in Streams |-> FALSE]
  /\ stop_result = "none"
  /\ first_send_logged = FALSE
  /\ remainder_of = NoRemainder
  /\ reapPc = "idle"
  /\ reapSid = 0
  /\ started_after_stop = [k \in Streams |-> FALSE]

ClInit ==
  /\ clCfg \in ClampConfigs
  /\ clRec = NoRecord

StInit ==
  /\ cfg \in StreamConfigs
  /\ StInitRest

nonStVars == << gwVars, clVars, cnVars, pfVars >>

nonClVars == << gwVars, stVars, cnVars, pfVars >>

(***************************************************************************)
(* Helpers of the engine.                                                  *)
(***************************************************************************)

\* active_streams[call_id], when there is one
Rec == CHOOSE r \in active_streams : TRUE

\* A faulty variant finds no stream active.
IsStreamActive_Never == FALSE

\* is_stream_active: a record whose streaming_task is not done
IsStreamActive ==
  /\ active_streams # {}
  /\ drainPc[Rec.stream_id] # "done"

\* Positions of the drain task inside its while loop, and inside the
\* _cleanup_stream of its finally block.
DrainLoopPcs ==
  {"wait_chunk", "put", "send", "after_send", "record_fallback", "fallback"}

CleanupPcs == {"c_flush", "c_gate", "c_sess"}

\* _fallback_to_file_playback: the queue registered for the call is emptied
\* and its audio handed to the fallback player.
FallbackToFile(sid, by) ==
  LET b == IF jitter_buffers # 0 THEN buf[jitter_buffers] ELSE << >>
  IN /\ played' = IF b # << >>
                    THEN Append(played, [stream_id |-> sid, by |-> by, audio |-> b])
                    ELSE played
     /\ buf' = IF jitter_buffers # 0
                 THEN [buf EXCEPT ![jitter_buffers] = << >>]
                 ELSE buf

\* _cleanup_stream after the grace sleep: the remainder is flushed.
CleanupFlush(sid) ==
  /\ flushed' = IF frame_remainders > 0 /\ transport_ok
                  THEN [flushed EXCEPT ![sid] = @ + 1]
                  ELSE flushed
  /\ first_send_logged' =
       (first_send_logged \/ (frame_remainders > 0 /\ audio_transport = "audiosocket"))

\* _cleanup_stream: gating is cleared, then the call's entries are removed
\* (lines 833-861).
CleanupGate(sid) ==
  /\ gating_cleared' = [gating_cleared EXCEPT ![sid] = @ + 1]
  /\ gating_tokens' = gating_tokens \ {sid}
  /\ active_streams' = {}
  /\ jitter_buffers' = 0
  /\ startup_ready' = "absent"

\* _cleanup_stream: the session flags are reset and the remainder record is
\* removed (lines 871-880).
CleanupSession ==
  /\ streaming_started' = FALSE
  /\ current_stream_id' = 0
  /\ frame_remainders' = 0
  /\ remainder_of' = NoRemainder

(***************************************************************************)
(* start_streaming_playback (lines 174-316).                               *)
(***************************************************************************)
\* The call is made: an active stream is returned as it is; otherwise the
\* caller waits for the session (line 199). Start calls are numbered in the
\* order they are made.
StartCall(k, type) ==
  /\ UNCHANGED nonStVars
  /\ startPc[k] = "idle"
  /\ IF k = 1 THEN TRUE ELSE startPc[k - 1] # "idle"
  /\ started_after_stop' = [started_after_stop EXCEPT ![k] = (stop_result = "True")]
  /\ IF IsStreamActive
       THEN /\ start_result' = [start_result EXCEPT ![k] = Rec.stream_id]
            /\ startPc' = [startPc EXCEPT ![k] = "done"]
            /\ UNCHANGED startType
       ELSE /\ startPc' = [startPc EXCEPT ![k] = "get_session"]
            /\ startType' = [startType EXCEPT ![k] = type]
            /\ UNCHANGED start_result
  /\ UNCHANGED << cfg, reapVars, remainder_of, audio_transport, transport_ok,
                  active_streams, jitter_buffers, keepalive_tasks, startup_ready,
                  frame_remainders, buf, drainPc, cur, pend, produced,
                  endPath, kaPc, stopPc, stopSid, disturbances,
                  streaming_started, current_stream_id, gating_tokens,
                  last_streaming_error, frames_sent, flushed, gating_cleared,
                  played, reachedMin,
                  stop_result, first_send_logged >>

\* The session is there: the jitter buffer is created and registered, the
\* session is marked as streaming, and the caller waits for the session
\* store and the gating collaborator (lines 206-262).
StartInit(k) ==
  /\ UNCHANGED nonStVars
  /\ startPc[k] = "get_session"
  /\ startPc' = [startPc EXCEPT ![k] = "gating"]
  /\ buf' = [buf EXCEPT ![k] = << >>]
  /\ jitter_buffers' = k
  /\ streaming_started' = TRUE
  /\ current_stream_id' = k
  /\ UNCHANGED << cfg, started_after_stop, reapVars, remainder_of,
                  audio_transport, transport_ok, startType, start_result,
                  active_streams, keepalive_tasks, startup_ready,
                  frame_remainders, drainPc, cur, pend, produced, endPath, kaPc,
                  stopPc, stopSid, disturbances, gating_tokens,
                  last_streaming_error, frames_sent, flushed, gating_cleared,
                  played, reachedMin, stop_result, first_send_logged >>

\* Gating is set: the two tasks are created and the record is stored, with
\* no await in between (lines 270-308).
StartGatingOk(k) ==
  /\ UNCHANGED nonStVars
  /\ startPc[k] = "gating"
  /\ startPc' = [startPc EXCEPT ![k] = "done"]
  /\ start_result' = [start_result EXCEPT ![k] = k]
  /\ gating_tokens' = gating_tokens \cup {k}
  /\ drainPc' = [drainPc EXCEPT ![k] = "wait_chunk"]
  /\ kaPc' = [kaPc EXCEPT ![k] = "sleep"]
  /\ keepalive_tasks' = k
  /\ active_streams' = {StreamRecord(k, startType[k], cfg)}
  /\ startup_ready' = "False"
  /\ UNCHANGED << cfg, started_after_stop, reapVars, remainder_of,
                  audio_transport, transport_ok, startType, jitter_buffers,
                  frame_remainders, buf, cur, pend, produced, endPath, stopPc,
                  stopSid, disturbances, streaming_started, current_stream_id,
                  last_streaming_error, frames_sent, flushed, gating_cleared,
                  played, reachedMin, stop_result, first_send_logged >>

\* Gating is refused: start returns None (lines 264-268).
StartGatingFails(k) ==
  /\ UNCHANGED nonStVars
  /\ startPc[k] = "gating"
  /\ disturbances < MaxDisturbances
  /\ disturbances' = disturbances + 1
  /\ startPc' = [startPc EXCEPT ![k] = "failed"]
  /\ UNCHANGED << cfg, started_after_stop, reapVars, remainder_of,
                  audio_transport, transport_ok, startType, start_result,
                  active_streams, jitter_buffers, keepalive_tasks,
                  startup_ready, frame_remainders, buf, drainPc, cur, pend,
                  produced, endPath, kaPc, stopPc, stopSid, streaming_started,
                  current_stream_id, gating_tokens, last_streaming_error,
                  frames_sent, flushed, gating_cleared, played, reachedMin,
                  stop_result, first_send_logged >>
(***************************************************************************)
(* The drain task: _stream_audio_loop and _process_jitter_buffer.          *)
(***************************************************************************)
\* One pass of the while loop of _process_jitter_buffer, from its test to
\* the first await of a send (lines 436-481): the loop is left on an empty
\* queue or a low-watermark pause, else a chunk is taken and `pending` is
\* the remainder plus the chunk. b is the task's queue, rem is
\* frame_remainders as the pass finds it, rdy is _startup_ready.
ProcessLoop(s, b, rem, rdy) ==
  LET low_watermark_chunks ==
        IF active_streams # {} THEN Rec.low_watermark_chunks
        ELSE LowWatermarkChunks(cfg)
  IN IF b = << >>
        \/ (low_watermark_chunks > 0 /\ Len(b) < low_watermark_chunks /\ rdy)
       THEN /\ buf' = [buf EXCEPT ![s] = b]
            /\ pend' = [pend EXCEPT ![s] = 0]
            /\ drainPc' = [drainPc EXCEPT ![s] = "wait_chunk"]
       ELSE /\ buf' = [buf EXCEPT ![s] = Tail(b)]
            /\ pend' = [pend EXCEPT ![s] =
                 (IF audio_transport = "audiosocket" THEN rem ELSE 0) + Head(b).len]
            /\ drainPc' = [drainPc EXCEPT ![s] = "send"]

\* _process_jitter_buffer entered after a put (lines 413-433): playback is
\* held until min_start_chunks are queued.
ProcessJitterBuffer(s, b) ==
  LET min_need == IF active_streams # {} THEN Rec.min_start_chunks
                  ELSE MinStartChunks(cfg)
  IN /\ reachedMin' = [reachedMin EXCEPT ![s] =
                         @ \/ Len(b) >= StreamMinStart(cfg, startType[s])]
     /\ IF startup_ready # "True" /\ Len(b) < min_need
          THEN /\ buf' = [buf EXCEPT ![s] = b]
               /\ drainPc' = [drainPc EXCEPT ![s] = "wait_chunk"]
               /\ UNCHANGED << pend, startup_ready >>
          ELSE /\ startup_ready' = "True"
               /\ ProcessLoop(s, b, frame_remainders, TRUE)

\* A chunk arrives on audio_chunks (lines 333-366); the task then awaits the
\* session store. On ExternalMedia a chunk is sent whole, so that one length
\* stands for all.
DrainRecvChunk(s, len) ==
  /\ UNCHANGED nonStVars
  /\ drainPc[s] = "wait_chunk"
  /\ produced < MaxChunks
  /\ audio_transport = "externalmedia" => len = FrameSize
  /\ produced' = produced + 1
  /\ cur' = [cur EXCEPT ![s] = << [n |-> produced + 1, len |-> len] >>]
  /\ drainPc' = [drainPc EXCEPT ![s] = "put"]
  /\ UNCHANGED << cfg, started_after_stop, reapVars, remainder_of,
                  audio_transport, transport_ok, startPc, startType,
                  start_result, active_streams, jitter_buffers, keepalive_tasks,
                  startup_ready, frame_remainders, buf, pend, endPath, kaPc,
                  stopPc, stopSid, disturbances, streaming_started,
                  current_stream_id, gating_tokens, last_streaming_error,
                  frames_sent, flushed, gating_cleared, played, reachedMin,
                  stop_result, first_send_logged >>

\* jitter_buffer.put, which waits while the task's queue is full, and the
\* call of _process_jitter_buffer (lines 369-372).
DrainPut(s) ==
  /\ UNCHANGED nonStVars
  /\ drainPc[s] = "put"
  /\ Len(buf[s]) < JbChunks(cfg)
  /\ cur' = [cur EXCEPT ![s] = << >>]
  /\ ProcessJitterBuffer(s, Append(buf[s], cur[s][1]))
  /\ UNCHANGED << cfg, started_after_stop, reapVars, remainder_of,
                  audio_transport, transport_ok, startPc, startType,
                  start_result, active_streams, jitter_buffers, keepalive_tasks,
                  frame_remainders, produced, endPath, kaPc, stopPc, stopSid,
                  disturbances, streaming_started, current_stream_id,
                  gating_tokens, last_streaming_error, frames_sent, flushed,
                  gating_cleared, played, stop_result, first_send_logged >>

\* One _send_audio_chunk (lines 481-493). On AudioSocket it sends one frame
\* of `pending` and is followed by the pacing sleep; on ExternalMedia it
\* sends the chunk and the loop goes on at once. A refused send ends
\* _process_jitter_buffer with False.
DrainSend(s) ==
  /\ UNCHANGED nonStVars
  /\ drainPc[s] = "send"
  /\ IF ~transport_ok
       THEN /\ drainPc' = [drainPc EXCEPT ![s] = "record_fallback"]
            /\ endPath' = [endPath EXCEPT ![s] = "transport-failure"]
            /\ pend' = [pend EXCEPT ![s] = 0]
            /\ UNCHANGED << frames_sent, buf >>
       ELSE /\ frames_sent' = [frames_sent EXCEPT ![s] = @ + 1]
            /\ UNCHANGED endPath
            /\ IF audio_transport = "audiosocket"
                 THEN /\ pend' = [pend EXCEPT ![s] = @ - FrameSize]
                      /\ drainPc' = [drainPc EXCEPT ![s] =
                           IF pend[s] - FrameSize >= FrameSize THEN "send"
                           ELSE "after_send"]
                      /\ UNCHANGED buf
                 ELSE ProcessLoop(s, buf[s], 0, startup_ready = "True")
  /\ UNCHANGED << cfg, started_after_stop, reapVars, remainder_of,
                  audio_transport, transport_ok, startPc, startType,
                  start_result, active_streams, jitter_buffers, keepalive_tasks,
                  startup_ready, frame_remainders, cur, produced, kaPc, stopPc,
                  stopSid, disturbances, streaming_started, current_stream_id,
                  gating_tokens, last_streaming_error, flushed, gating_cleared,
                  played, reachedMin,
                  stop_result >>
  /\ first_send_logged' = (first_send_logged \/ audio_transport = "audiosocket")

\* After the pacing sleep of a chunk's last frame: the remainder is saved
\* and the loop goes on (line 488).
DrainAfterSend(s) ==
  /\ UNCHANGED nonStVars
  /\ drainPc[s] = "after_send"
  /\ frame_remainders' = pend[s]
  /\ remainder_of' = IF pend[s] > 0
                       THEN [stream |-> s, offset |-> frames_sent[s] * FrameSize]
                       ELSE NoRemainder
  /\ ProcessLoop(s, buf[s], pend[s], startup_ready = "True")
  /\ UNCHANGED << cfg, started_after_stop, reapVars, audio_transport,
                  transport_ok, startPc, startType, start_result,
                  active_streams, jitter_buffers, keepalive_tasks,
                  startup_ready, cur, produced, endPath, kaPc, stopPc, stopSid,
                  disturbances, streaming_started, current_stream_id,
                  gating_tokens, last_streaming_error, frames_sent, flushed,
                  gating_cleared, played, reachedMin, stop_result,
                  first_send_logged >>
\* The end-of-stream signal (None) arrives: the loop is left and the finally
\* block runs _cleanup_stream (lines 338-347, 403-404).
DrainEndOfStream(s) ==
  /\ UNCHANGED nonStVars
  /\ drainPc[s] = "wait_chunk"
  /\ drainPc' = [drainPc EXCEPT ![s] = "c_flush"]
  /\ endPath' = [endPath EXCEPT ![s] = "end-of-stream"]
  /\ UNCHANGED << cfg, started_after_stop, reapVars, remainder_of,
                  audio_transport, transport_ok, startPc, startType,
                  start_result, active_streams, jitter_buffers, keepalive_tasks,
                  startup_ready, frame_remainders, buf, cur, pend, produced,
                  kaPc, stopPc, stopSid, disturbances, streaming_started,
                  current_stream_id, gating_tokens, last_streaming_error,
                  frames_sent, flushed, gating_cleared, played, reachedMin,
                  stop_result, first_send_logged >>

\* No chunk arrives within fallback_timeout_ms (lines 383-392).
DrainTimeout(s) ==
  /\ UNCHANGED nonStVars
  /\ drainPc[s] = "wait_chunk"
  /\ disturbances < MaxDisturbances
  /\ disturbances' = disturbances + 1
  /\ drainPc' = [drainPc EXCEPT ![s] = "record_fallback"]
  /\ endPath' = [endPath EXCEPT ![s] = "timeout"]
  /\ UNCHANGED << cfg, started_after_stop, reapVars, remainder_of,
                  audio_transport, transport_ok, startPc, startType,
                  start_result, active_streams, jitter_buffers, keepalive_tasks,
                  startup_ready, frame_remainders, buf, cur, pend, produced,
                  kaPc, stopPc, stopSid, streaming_started, current_stream_id,
                  gating_tokens, last_streaming_error, frames_sent, flushed,
                  gating_cleared, played, reachedMin, stop_result,
                  first_send_logged >>
\* _record_fallback (lines 638-648): the reason is stored in the session.
DrainRecordFallback(s) ==
  /\ UNCHANGED nonStVars
  /\ drainPc[s] = "record_fallback"
  /\ drainPc' = [drainPc EXCEPT ![s] = "fallback"]
  /\ last_streaming_error' = endPath[s]
  /\ UNCHANGED << cfg, started_after_stop, reapVars, remainder_of,
                  audio_transport, transport_ok, startPc, startType,
                  start_result, active_streams, jitter_buffers, keepalive_tasks,
                  startup_ready, frame_remainders, buf, cur, pend, produced,
                  endPath, kaPc, stopPc, stopSid, disturbances,
                  streaming_started, current_stream_id, gating_tokens,
                  frames_sent, flushed, gating_cleared, played, reachedMin,
                  stop_result, first_send_logged >>

\* _fallback_to_file_playback called by the drain loop; the loop is left and
\* the finally block runs _cleanup_stream.
DrainFallback(s) ==
  /\ UNCHANGED nonStVars
  /\ drainPc[s] = "fallback"
  /\ drainPc' = [drainPc EXCEPT ![s] = "c_flush"]
  /\ FallbackToFile(s, "drain")
  /\ UNCHANGED << cfg, started_after_stop, reapVars, remainder_of,
                  audio_transport, transport_ok, startPc, startType,
                  start_result, active_streams, jitter_buffers, keepalive_tasks,
                  startup_ready, frame_remainders, cur, pend, produced, endPath,
                  kaPc, stopPc, stopSid, disturbances, streaming_started,
                  current_stream_id, gating_tokens, last_streaming_error,
                  frames_sent, flushed, gating_cleared, reachedMin,
                  stop_result, first_send_logged >>

\* _cleanup_stream run by the drain task, in three steps: after the grace
\* sleep, after the flush, after the gating call.
DrainCleanupFlush(s) ==
  /\ UNCHANGED nonStVars
  /\ drainPc[s] = "c_flush"
  /\ drainPc' = [drainPc EXCEPT ![s] = "c_gate"]
  /\ CleanupFlush(s)
  /\ UNCHANGED << cfg, started_after_stop, reapVars, remainder_of,
                  audio_transport, transport_ok, startPc, startType,
                  start_result, active_streams, jitter_buffers, keepalive_tasks,
                  startup_ready, frame_remainders, buf, cur, pend, produced,
                  endPath, kaPc, stopPc, stopSid, disturbances,
                  streaming_started, current_stream_id, gating_tokens,
                  last_streaming_error, frames_sent, gating_cleared, played,
                  reachedMin, stop_result >>

DrainCleanupGate(s) ==
  /\ UNCHANGED nonStVars
  /\ drainPc[s] = "c_gate"
  /\ drainPc' = [drainPc EXCEPT ![s] = "c_sess"]
  /\ CleanupGate(s)
  /\ UNCHANGED << cfg, started_after_stop, reapVars, remainder_of,
                  audio_transport, transport_ok, startPc, startType,
                  start_result, keepalive_tasks, frame_remainders, buf, cur,
                  pend, produced, endPath, kaPc, stopPc, stopSid, disturbances,
                  streaming_started, current_stream_id, last_streaming_error,
                  frames_sent, flushed, played, reachedMin,
                  stop_result, first_send_logged >>

DrainCleanupSession(s) ==
  /\ UNCHANGED nonStVars
  /\ drainPc[s] = "c_sess"
  /\ drainPc' = [drainPc EXCEPT ![s] = "done"]
  /\ CleanupSession
  /\ UNCHANGED << cfg, started_after_stop, reapVars, audio_transport,
                  transport_ok, startPc, startType, start_result,
                  active_streams, jitter_buffers, keepalive_tasks,
                  startup_ready, buf, cur, pend, produced, endPath, kaPc,
                  stopPc, stopSid, disturbances, gating_tokens,
                  last_streaming_error, frames_sent, flushed, gating_cleared,
                  played, reachedMin, stop_result, first_send_logged >>

\* The transport stops accepting frames; it shows at the next send.
TransportFails ==
  /\ UNCHANGED nonStVars
  /\ transport_ok
  /\ disturbances < MaxDisturbances
  /\ disturbances' = disturbances + 1
  /\ \E s \in Streams : drainPc[s] = "send"
  /\ transport_ok' = FALSE
  /\ UNCHANGED << cfg, started_after_stop, reapVars, remainder_of,
                  audio_transport, startPc, startType, start_result,
                  active_streams, jitter_buffers, keepalive_tasks,
                  startup_ready, frame_remainders, buf, drainPc, cur, pend,
                  produced, endPath, kaPc, stopPc, stopSid, streaming_started,
                  current_stream_id, gating_tokens, last_streaming_error,
                  frames_sent, flushed, gating_cleared, played, reachedMin,
                  stop_result, first_send_logged >>
(***************************************************************************)
(* The keepalive task (_keepalive_loop, lines 706-764).                    *)
(***************************************************************************)
\* After a sleep the call still has a record and the last chunk is older
\* than connection_timeout_ms: the error is stored in the session
\* (lines 729-747).
KaTimeout(s) ==
  /\ UNCHANGED nonStVars
  /\ kaPc[s] = "sleep"
  /\ disturbances < MaxDisturbances
  /\ disturbances' = disturbances + 1
  /\ active_streams # {}
  /\ kaPc' = [kaPc EXCEPT ![s] = "fallback"]
  /\ last_streaming_error' = "keepalive-timeout"
  /\ UNCHANGED << cfg, started_after_stop, reapVars, remainder_of,
                  audio_transport, transport_ok, startPc, startType,
                  start_result, active_streams, jitter_buffers, keepalive_tasks,
                  startup_ready, frame_remainders, buf, drainPc, cur, pend,
                  produced, endPath, stopPc, stopSid, streaming_started,
                  current_stream_id, gating_tokens, frames_sent, flushed,
                  gating_cleared, played, reachedMin, stop_result,
                  first_send_logged >>
\* _fallback_to_file_playback called by the keepalive loop, which then ends
\* (lines 748-749).
KaFallback(s) ==
  /\ UNCHANGED nonStVars
  /\ kaPc[s] = "fallback"
  /\ kaPc' = [kaPc EXCEPT ![s] = "timed_out"]
  /\ FallbackToFile(s, "keepalive")
  /\ UNCHANGED << cfg, started_after_stop, reapVars, remainder_of,
                  audio_transport, transport_ok, startPc, startType,
                  start_result, active_streams, jitter_buffers, keepalive_tasks,
                  startup_ready, frame_remainders, drainPc, cur, pend, produced,
                  endPath, stopPc, stopSid, disturbances, streaming_started,
                  current_stream_id, gating_tokens, last_streaming_error,
                  frames_sent, flushed, gating_cleared, reachedMin,
                  stop_result, first_send_logged >>

\* After a sleep the call has no record: the loop ends (lines 709-714).
KaExit(s) ==
  /\ UNCHANGED nonStVars
  /\ kaPc[s] = "sleep"
  /\ active_streams = {}
  /\ kaPc' = [kaPc EXCEPT ![s] = "done"]
  /\ UNCHANGED << cfg, started_after_stop, reapVars, remainder_of,
                  audio_transport, transport_ok, startPc, startType,
                  start_result, active_streams, jitter_buffers, keepalive_tasks,
                  startup_ready, frame_remainders, buf, drainPc, cur, pend,
                  produced, endPath, stopPc, stopSid, disturbances,
                  streaming_started, current_stream_id, gating_tokens,
                  last_streaming_error, frames_sent, flushed, gating_cleared,
                  played, reachedMin, stop_result, first_send_logged >>

(***************************************************************************)
(* stop_streaming_playback (lines 766-800).                                *)
(***************************************************************************)
\* stop_streaming_playback for a call with no stream record: False is
\* returned at once (lines 769-772).
StopNoStream ==
  /\ UNCHANGED nonStVars
  /\ stopPc = "idle"
  /\ disturbances < MaxDisturbances
  /\ active_streams = {}
  /\ disturbances' = disturbances + 1
  /\ stop_result' = "False"
  /\ UNCHANGED << cfg, started_after_stop, reapVars, remainder_of,
                  audio_transport, transport_ok, startPc, startType,
                  start_result, active_streams, jitter_buffers, keepalive_tasks,
                  startup_ready, frame_remainders, buf, drainPc, cur, pend,
                  produced, endPath, kaPc, stopPc, stopSid, streaming_started,
                  current_stream_id, gating_tokens, last_streaming_error,
                  frames_sent, flushed, gating_cleared, played, reachedMin,
                  first_send_logged >>
\* The record's drain task and the registered keepalive task are cancelled;
\* the caller then runs _cleanup_stream itself. A drain task cancelled in
\* its loop goes to its finally block; cancelled inside the _cleanup_stream
\* of that block, it ends there.
StopStreamingPlayback ==
  /\ UNCHANGED nonStVars
  /\ stopPc = "idle"
  /\ disturbances < MaxDisturbances
  /\ active_streams # {}
  /\ LET sid == Rec.stream_id
         ka  == keepalive_tasks
     IN /\ drainPc' = [drainPc EXCEPT ![sid] =
              IF @ \in DrainLoopPcs THEN "c_flush"
              ELSE IF @ \in CleanupPcs THEN "done" ELSE @]
        /\ endPath' = [endPath EXCEPT ![sid] =
              IF drainPc[sid] \in DrainLoopPcs THEN "cancelled" ELSE @]
        /\ cur' = [cur EXCEPT ![sid] = << >>]
        /\ pend' = [pend EXCEPT ![sid] = 0]
        /\ kaPc' = IF ka # 0 /\ kaPc[ka] \in {"sleep", "fallback"}
                     THEN [kaPc EXCEPT ![ka] = "done"]
                     ELSE kaPc
        /\ stopSid' = sid
  /\ keepalive_tasks' = 0
  /\ stopPc' = "c_flush"
  /\ disturbances' = disturbances + 1
  /\ UNCHANGED << cfg, started_after_stop, reapVars, remainder_of,
                  audio_transport, transport_ok, startPc, startType,
                  start_result, active_streams, jitter_buffers, startup_ready,
                  frame_remainders, buf, produced, streaming_started,
                  current_stream_id, gating_tokens, last_streaming_error,
                  frames_sent, flushed, gating_cleared, played, reachedMin,
                  stop_result, first_send_logged >>
\* _cleanup_stream run by the caller of stop, in the same three steps.
StopCleanupFlush ==
  /\ UNCHANGED nonStVars
  /\ stopPc = "c_flush"
  /\ stopPc' = "c_gate"
  /\ CleanupFlush(stopSid)
  /\ UNCHANGED << cfg, started_after_stop, reapVars, remainder_of,
                  audio_transport, transport_ok, startPc, startType,
                  start_result, active_streams, jitter_buffers, keepalive_tasks,
                  startup_ready, frame_remainders, buf, drainPc, cur, pend,
                  produced, endPath, kaPc, stopSid, disturbances,
                  streaming_started, current_stream_id, gating_tokens,
                  last_streaming_error, frames_sent, gating_cleared, played,
                  reachedMin, stop_result >>

StopCleanupGate ==
  /\ UNCHANGED nonStVars
  /\ stopPc = "c_gate"
  /\ stopPc' = "c_sess"
  /\ CleanupGate(stopSid)
  /\ UNCHANGED << cfg, started_after_stop, reapVars, remainder_of,
                  audio_transport, transport_ok, startPc, startType,
                  start_result, keepalive_tasks, frame_remainders, buf, drainPc,
                  cur, pend, produced, endPath, kaPc, stopSid, disturbances,
                  streaming_started, current_stream_id, last_streaming_error,
                  frames_sent, flushed, played, reachedMin,
                  stop_result, first_send_logged >>

StopCleanupSession ==
  /\ UNCHANGED nonStVars
  /\ stopPc = "c_sess"
  /\ stopPc' = "idle"
  /\ CleanupSession
  /\ UNCHANGED << cfg, started_after_stop, reapVars, audio_transport,
                  transport_ok, startPc, startType, start_result,
                  active_streams, jitter_buffers, keepalive_tasks,
                  startup_ready, buf, drainPc, cur, pend, produced, endPath,
                  kaPc, stopSid, disturbances, gating_tokens,
                  last_streaming_error, frames_sent, flushed, gating_cleared,
                  played, reachedMin, first_send_logged >>
  /\ stop_result' = "True"

(***************************************************************************)
(* cleanup_expired_streams (lines 926-940).                                *)
(***************************************************************************)
\* The records are scanned for an age above max_age_seconds; the clock is
\* not modelled, so that `expired` says how the comparison turned out. For
\* an expired stream the caller awaits _cleanup_stream; no task is
\* cancelled. With nothing expired 0 is returned at once.
CleanupExpiredStreams(expired) ==
  /\ UNCHANGED nonStVars
  /\ reapPc = "idle"
  /\ disturbances < MaxDisturbances
  /\ disturbances' = disturbances + 1
  /\ IF expired /\ active_streams # {}
       THEN /\ reapPc' = "c_flush"
            /\ reapSid' = Rec.stream_id
       ELSE /\ reapPc' = "returned"
            /\ reapSid' = 0
  /\ UNCHANGED << cfg, started_after_stop, remainder_of, audio_transport,
                  transport_ok, startPc, startType, start_result,
                  active_streams, jitter_buffers, keepalive_tasks,
                  startup_ready, frame_remainders, buf, drainPc, cur, pend,
                  produced, endPath, kaPc, stopPc, stopSid, streaming_started,
                  current_stream_id, gating_tokens, last_streaming_error,
                  frames_sent, flushed, gating_cleared, played, reachedMin,
                  stop_result, first_send_logged >>

\* _cleanup_stream run by the caller of cleanup_expired_streams, in the
\* same three steps; the number of expired calls is then returned.
ReapCleanupFlush ==
  /\ UNCHANGED nonStVars
  /\ reapPc = "c_flush"
  /\ reapPc' = "c_gate"
  /\ CleanupFlush(reapSid)
  /\ UNCHANGED << cfg, started_after_stop, reapSid, remainder_of,
                  audio_transport, transport_ok, startPc, startType,
                  start_result, active_streams, jitter_buffers, keepalive_tasks,
                  startup_ready, frame_remainders, buf, drainPc, cur, pend,
                  produced, endPath, kaPc, stopPc, stopSid, disturbances,
                  streaming_started, current_stream_id, gating_tokens,
                  last_streaming_error, frames_sent, gating_cleared, played,
                  reachedMin, stop_result >>

ReapCleanupGate ==
  /\ UNCHANGED nonStVars
  /\ reapPc = "c_gate"
  /\ reapPc' = "c_sess"
  /\ CleanupGate(reapSid)
  /\ UNCHANGED << cfg, started_after_stop, reapSid, remainder_of,
                  audio_transport, transport_ok, startPc, startType,
                  start_result, keepalive_tasks, frame_remainders, buf, drainPc,
                  cur, pend, produced, endPath, kaPc, stopPc, stopSid,
                  disturbances, streaming_started, current_stream_id,
                  last_streaming_error, frames_sent, flushed, played,
                  reachedMin, stop_result, first_send_logged >>

ReapCleanupSession ==
  /\ UNCHANGED nonStVars
  /\ reapPc = "c_sess"
  /\ reapPc' = "returned"
  /\ CleanupSession
  /\ UNCHANGED << cfg, started_after_stop, reapSid, audio_transport,
                  transport_ok, startPc, startType, start_result,
                  active_streams, jitter_buffers, keepalive_tasks,
                  startup_ready, buf, drainPc, cur, pend, produced, endPath,
                  kaPc, stopPc, stopSid, disturbances, gating_tokens,
                  last_streaming_error, frames_sent, flushed, gating_cleared,
                  played, reachedMin, stop_result, first_send_logged >>

StNext ==
  \/ \E k \in Streams, type \in PlaybackTypes : StartCall(k, type)
  \/ \E k \in Streams : StartInit(k)
  \/ \E k \in Streams : StartGatingOk(k)
  \/ \E k \in Streams : StartGatingFails(k)
  \/ \E s \in Streams, len \in ChunkLens : DrainRecvChunk(s, len)
  \/ \E s \in Streams : DrainPut(s)
  \/ \E s \in Streams : DrainSend(s)
  \/ \E s \in Streams : DrainAfterSend(s)
  \/ \E s \in Streams : DrainEndOfStream(s)
  \/ \E s \in Streams : DrainTimeout(s)
  \/ \E s \in Streams : DrainRecordFallback(s)
  \/ \E s \in Streams : DrainFallback(s)
  \/ \E s \in Streams : DrainCleanupFlush(s)
  \/ \E s \in Streams : DrainCleanupGate(s)
  \/ \E s \in Streams : DrainCleanupSession(s)
  \/ TransportFails
  \/ \E s \in Streams : KaTimeout(s)
  \/ \E s \in Streams : KaFallback(s)
  \/ \E s \in Streams : KaExit(s)
  \/ StopNoStream
  \/ StopStreamingPlayback
  \/ StopCleanupFlush
  \/ StopCleanupGate
  \/ StopCleanupSession

\* One stream of a call, with the periodic cleanup_expired_streams: the
\* actions of StNext for a single start call, and the reaper.
OneStreamNext ==
  \/ \E type \in PlaybackTypes : StartCall(1, type)
  \/ \E k \in Streams : StartInit(k)
  \/ \E k \in Streams : StartGatingOk(k)
  \/ \E k \in Streams : StartGatingFails(k)
  \/ \E s \in Streams, len \in ChunkLens : DrainRecvChunk(s, len)
  \/ \E s \in Streams : DrainPut(s)
  \/ \E s \in Streams : DrainSend(s)
  \/ \E s \in Streams : DrainAfterSend(s)
  \/ \E s \in Streams : DrainEndOfStream(s)
  \/ \E s \in Streams : DrainTimeout(s)
  \/ \E s \in Streams : DrainRecordFallback(s)
  \/ \E s \in Streams : DrainFallback(s)
  \/ \E s \in Streams : DrainCleanupFlush(s)
  \/ \E s \in Streams : DrainCleanupGate(s)
  \/ \E s \in Streams : DrainCleanupSession(s)
  \/ TransportFails
  \/ \E s \in Streams : KaTimeout(s)
  \/ \E s \in Streams : KaFallback(s)
  \/ \E s \in Streams : KaExit(s)
  \/ StopNoStream
  \/ StopStreamingPlayback
  \/ StopCleanupFlush
  \/ StopCleanupGate
  \/ StopCleanupSession
  \/ \E expired \in BOOLEAN : CleanupExpiredStreams(expired)
  \/ ReapCleanupFlush
  \/ ReapCleanupGate
  \/ ReapCleanupSession

(***************************************************************************)
(* The threshold computation of start on its own.                          *)
(***************************************************************************)
\* start_streaming_playback stores the record of a stream (lines 208-296).
ClampStart(type) ==
  /\ UNCHANGED nonClVars
  /\ clRec = NoRecord
  /\ clRec' = StreamRecord(1, type, clCfg)
  /\ UNCHANGED clCfg

ClNext == \E type \in PlaybackTypes : ClampStart(type)

(***************************************************************************)
(* Pure functions taken on their own (SpecFn): one call, then its result.  *)
(***************************************************************************)
NoCall == [fn |-> "none"]

NoResult == [done |-> FALSE]

\* Policies that name themselves; anything else is resolved from the probe.
ExplicitPolicies == {"strict", "compatible", "off"}

\* config.tool_call_policy, lower-cased; "bogus" stands for a misspelt value.
ConfiguredPolicies == {"auto", "strict", "compatible", "off", "bogus"}

\* context["local_tool_call_policy"]; NULL when the context has none.
OverridePolicies == {NULL, "auto", "strict", "compatible", "off", "bogus"}

\* _tool_capability["level"] as the last probe left it.
CapabilityLevels == {"strict", "partial", "none", "unknown"}

PolicyCalls ==
  [fn : {"resolve_tool_policy"}, configured : ConfiguredPolicies,
   override : OverridePolicies, level : CapabilityLevels]

\* _resolve_tool_policy is called and returns.
ApplyResolveToolPolicy ==
  /\ UNCHANGED nonPfVars
  /\ fnCall.fn = "resolve_tool_policy"
  /\ ~fnResult.done
  /\ fnResult' = [done |-> TRUE,
                  policy |-> ResolveToolPolicy(fnCall.configured,
                                               fnCall.override, fnCall.level)]
  /\ UNCHANGED fnCall

\* Samples of one PCM16 chunk in a call of resample_audio.
MaxSamples == 3

SampleValues == {0, 100}

SampleRates == {8000, 16000, 24000}

RECURSIVE SeqsUpTo(_)
SeqsUpTo(n) ==
  IF n = 0 THEN {<< >>}
  ELSE LET shorter == SeqsUpTo(n - 1)
       IN shorter \cup {Append(s, v) : s \in {t \in shorter : Len(t) = n - 1},
                                       v \in SampleValues}

\* The state argument: << >> for None, else the one-element tuple.
ResampleStates == {<< >>, << 7 >>}

ResampleCalls ==
  [fn : {"resample_audio"}, pcm : SeqsUpTo(MaxSamples), source_rate : SampleRates,
   target_rate : SampleRates, state : ResampleStates]

\* int(round(a / b)) for a >= 0, b > 0: Python rounds halves to even.
RoundDiv(a, b) ==
  LET q == a \div b
      r == a % b
  IN IF 2 * r < b THEN q
     ELSE IF 2 * r > b THEN q + 1
     ELSE IF q % 2 = 0 THEN q ELSE q + 1

\* astype(np.int16) of a quotient: truncation toward zero.
TruncDiv(a, b) == IF a >= 0 THEN a \div b ELSE -((-a) \div b)

\* np.clip(resampled, -32768, 32767)
Clip(v) == IF v < -32768 THEN -32768 ELSE IF v > 32767 THEN 32767 ELSE v

\* np.interp(num / den, 0..Len(fp)-1, fp): linear between neighbours, the
\* last value at and beyond the last position.
Interp(num, den, fp) ==
  LET i   == num \div den
      rem == num % den
  IN IF i >= Len(fp) - 1 THEN fp[Len(fp)]
     ELSE Clip(TruncDiv(fp[i + 1] * den + (fp[i + 2] - fp[i + 1]) * rem, den))

\* A faulty variant of OutPositions: the last position is left out.
OutPositions_Short(n_out, carried) == 1..(n_out - 1)

\* The output positions, in steps: 1..n_out with a carried sample (line 97),
\* 0..n_out-1 without (line 101); numbered from 1 here.
OutPositions(n_out, carried) == 1..n_out

\* resample_audio (lines 41-106)
ResampleAudio(pcm, source_rate, target_rate, state) ==
  IF pcm = << >> \/ source_rate = target_rate
    THEN [out |-> pcm, state |-> state]
    ELSE LET n_in  == Len(pcm)
             n_out == RoundDiv(n_in * target_rate, source_rate)
             carried == state # << >>
             extended == IF carried THEN << state[1] >> \o pcm ELSE pcm
         IN IF n_out = 0
              THEN [out |-> << >>, state |-> state]
              ELSE [out |-> [k \in OutPositions(n_out, carried) |->
                               Interp((IF carried THEN k ELSE k - 1) * n_in,
                                      n_out, extended)],
                    state |-> << pcm[n_in] >>]

\* resample_audio is called and returns.
ApplyResampleAudio ==
  /\ UNCHANGED nonPfVars
  /\ fnCall.fn = "resample_audio"
  /\ ~fnResult.done
  /\ fnResult' = [done |-> TRUE,
                  res |-> ResampleAudio(fnCall.pcm, fnCall.source_rate,
                                        fnCall.target_rate, fnCall.state)]
  /\ UNCHANGED fnCall

\* The texts handed to the parser, by shape: spoken words, then what
\* announces the tool (its bare name, its name in markdown emphasis, a
\* <tool_call> tag or a stray </tool_call> tag), then a JSON object (whole,
\* cut off inside the arguments after a complete pair, or cut off right after
\* "arguments":), then a </tool_call> tag, then spoken words.
Markers == {"none", "bare_name", "markdown_name", "open_tag", "close_tag"}

JsonForms == {"none", "full", "cut_args", "cut_noargs"}

ParserTexts ==
  [lead : BOOLEAN, marker : Markers, json : JsonForms, closing : BOOLEAN,
   trail : BOOLEAN]

ParseCalls == [fn : {"parse_response_with_tools"}, text : ParserTexts]

\* The tool call written in the JSON object of the texts.
WrittenCall == TC("hangup_call", "Bye")

\* _extract_json_object: an object is found when the braces opened by the
\* first "{" are all closed again.
ExtractJsonObject(json) == json = "full"

\* TOOL_CALL_PATTERN matches: an opening tag, an object up to a "}", the
\* closing tag.
ToolCallPatternMatches(t) ==
  t.marker = "open_tag" /\ t.json = "full" /\ t.closing

\* The third attempt of parse_tool_calls: a <tool_call> or </tool_call> tag
\* with a whole JSON object after it (nothing that follows the last tag of
\* these texts holds a "{").
AdjacentTagMatches(t) ==
  t.marker \in {"open_tag", "close_tag"} /\ ExtractJsonObject(t.json)

\* parse_tool_calls on a text of ParserTexts. The named-tag attempt skips
\* the tool_call tag, and the functools and "function" forms do not occur in
\* these texts.
ParseToolCallsIn(t) ==
  IF ToolCallPatternMatches(t) THEN << WrittenCall >>
  ELSE IF AdjacentTagMatches(t) THEN << WrittenCall >>
  ELSE << >>

\* extract_text_without_tools on a text of ParserTexts: the pieces left, in
\* order. The tags go, with the object after them when it is whole; a name
\* and an object without a tag stay.
ExtractTextWithoutToolsIn(t) ==
  (IF t.lead THEN << "words" >> ELSE << >>)
  \o (IF t.marker \in {"bare_name", "markdown_name"} THEN << t.marker >> ELSE << >>)
  \o (IF t.json = "none" \/ ToolCallPatternMatches(t) \/ AdjacentTagMatches(t)
        THEN << >> ELSE << t.json >>)
  \o (IF t.trail THEN << "words" >> ELSE << >>)

\* parse_response_with_tools on a text of ParserTexts; the empty sequence
\* stands for None in both fields.
ParseResponseWithToolsIn(t) ==
  [clean |-> ExtractTextWithoutToolsIn(t), calls |-> ParseToolCallsIn(t)]

\* parse_response_with_tools is called and returns.
ApplyParseResponseWithTools ==
  /\ UNCHANGED nonPfVars
  /\ fnCall.fn = "parse_response_with_tools"
  /\ ~fnResult.done
  /\ fnResult' = [done |-> TRUE, res |-> ParseResponseWithToolsIn(fnCall.text)]
  /\ UNCHANGED fnCall

PfInit ==
  /\ fnResult = NoResult
  /\ \/ fnCall = NoCall
     \/ fnCall \in PolicyCalls
     \/ fnCall \in ResampleCalls
     \/ fnCall \in ParseCalls

PfNext ==
  \/ ApplyResolveToolPolicy
  \/ ApplyResampleAudio
  \/ ApplyParseResponseWithTools

(***************************************************************************)
(* The provider's connection: bounds, initial state and helpers.           *)
(***************************************************************************)
\* Connections opened in one run.
MaxConns == 2

\* Ends of a call that are counted in one run.
MaxCallEnds == 1

\* Tasks created in one run, the background reconnect task included.
MaxTasks == 6

\* Attempts of one _reconnect (the length of its backoff schedule).
MaxAttempts == 2

\* Chunks enqueued by send_audio in one run.
MaxAudio == 2

\* The capacity of the outbound queue (maxsize=200, line 38), scaled down.
SendQueueCap == 1

\* start_session calls in one run.
MaxStartSessions == 2

\* Faults of the backend in one run: a connection closing, the port opening
\* or closing, a connect or an auth handshake failing.
MaxFaults == 3

Conns == 1..MaxConns

Tasks == 1..MaxTasks

Chunks == 1..MaxAudio

BgTask == 1

\* The awaits of _reconnect.
ReconnectPcs == {"rc_probe", "rc_connect", "rc_auth", "rc_reprobe", "rc_sleep"}

CnInit ==
  /\ port_open \in BOOLEAN
  /\ faults = 0
  /\ auth_token \in BOOLEAN
  /\ connState = [c \in Conns |-> "none"]
  /\ connAuth = [c \in Conns |-> "none"]
  /\ nextConn = 1
  /\ websocket = 0
  /\ server_unavailable = FALSE
  /\ was_connected = FALSE
  /\ listener_task = 0
  /\ sender_task = 0
  /\ background_reconnect_task = 0
  /\ taskKind = [t \in Tasks |-> IF t = BgTask THEN "background" ELSE "none"]
  /\ taskPc = [t \in Tasks |-> "none"]
  /\ taskConn = [t \in Tasks |-> 0]
  /\ attempt = [t \in Tasks |-> 0]
  /\ held = [t \in Tasks |-> << >>]
  /\ nextTask = 2
  /\ send_queue = << >>
  /\ nextChunk = 1
  /\ wire = << >>
  /\ sends = [k \in Chunks |-> 0]
  /\ call_ends = 0
  /\ send_audio_pc = "idle"

nonCnVars == << gwVars, stVars, clVars, pfVars >>

\* is_connected (line 584): a connection is set and its state is OPEN.
IsConnected == websocket # 0 /\ connState[websocket] = "open"

\* task.done(), for a task or None.
TaskDone(t) == t = 0 \/ taskPc[t] \in {"none", "done", "returned", "reused", "raised"}

\* A faulty variant takes the port for open whatever the probe finds.
IsPortOpen_Always == TRUE

\* _is_port_open (lines 93-110): the result of the TCP probe.
IsPortOpen == port_open

(***************************************************************************)
(* _reconnect (lines 651-755), as run by the task t that called it.        *)
(***************************************************************************)
\* A faulty variant of OldTasks: the old sender task is left running.
OldTasks_ListenerOnly == {u \in {listener_task} \ {0} : ~TaskDone(u)}

\* The tasks a successful _reconnect cancels (lines 707-712).
OldTasks == {u \in {listener_task, sender_task} \ {0} : ~TaskDone(u)}

\* The connection is up (and authenticated, when a token is configured):
\* the old listener and sender tasks are cancelled and new ones created
\* (lines 707-716), and the caller goes on. A task suspended at an await
\* ends when cancelled; the caller, when it cancels itself, ends at its next
\* await: a send loop still resends its batch (lines 1062-1068), on
\* self.websocket as it is then.
ReconnectSucceeds(t) ==
  LET newL == nextTask
      newS == nextTask + 1
      K    == OldTasks
      kind == taskKind[t]
      batch == held[t]
  IN /\ nextTask + 1 <= MaxTasks
     /\ nextTask' = nextTask + 2
     /\ listener_task' = newL
     /\ sender_task' = newS
     /\ taskKind' = [taskKind EXCEPT ![newL] = "listener", ![newS] = "sender"]
     /\ taskPc' = [u \in Tasks |->
          IF u = newL THEN "start"
          ELSE IF u = newS THEN "get"
          ELSE IF u = t
            THEN (IF kind = "session" THEN "returned"
                  ELSE IF kind = "sender" /\ t \notin K THEN "pace"
                  ELSE "done")
          ELSE IF u \in K THEN "done"
          ELSE taskPc[u]]
     /\ background_reconnect_task' =
          IF kind = "background" THEN 0 ELSE background_reconnect_task
     /\ wire' = IF kind = "sender" /\ batch # << >> /\ websocket' # 0
                   /\ connState'[websocket'] = "open"
                  THEN Append(wire, [conn |-> websocket', batch |-> batch])
                  ELSE wire
     /\ sends' = IF kind = "sender" /\ batch # << >>
                   THEN [sends EXCEPT ![Head(batch)] = @ + 1]
                   ELSE sends
     /\ held' = [u \in Tasks |-> IF u = t \/ u \in K THEN << >> ELSE held[u]]
     /\ attempt' = [u \in Tasks |-> IF u = t \/ u \in K THEN 0 ELSE attempt[u]]

\* A faulty variant of GiveUpBatch: the batch is kept for another try.
GiveUpBatch_Keep(t) == held

\* The send loop's batch after a failed _reconnect (lines 1063-1073): nothing
\* refers to it any more.
GiveUpBatch(t) == [u \in Tasks |-> IF u = t THEN << >> ELSE held[u]]

\* _reconnect returns False: a send loop gives its batch up (line 1061), a
\* receive loop starts the background reconnect task when the provider was
\* connected before and ends (lines 1429-1439), the background task sleeps
\* again (line 797), initialize returns when the port was found closed and
\* raises otherwise (lines 828-838).
ReconnectFails(t) ==
  LET kind == taskKind[t]
      startBg == /\ kind = "listener"
                 /\ was_connected'
                 /\ TaskDone(background_reconnect_task)
  IN /\ taskPc' = [u \in Tasks |->
          IF u = t
            THEN (IF kind = "sender" THEN "pace"
                  ELSE IF kind = "background" THEN "bg_sleep"
                  ELSE IF kind = "session"
                    THEN (IF server_unavailable' THEN "returned" ELSE "raised")
                  ELSE "done")
          ELSE IF u = BgTask /\ startBg THEN "bg_sleep"
          ELSE taskPc[u]]
     /\ background_reconnect_task' =
          IF startBg THEN BgTask ELSE background_reconnect_task
     /\ held' = GiveUpBatch(t)
     /\ attempt' = [attempt EXCEPT ![t] = 0]
     /\ UNCHANGED << taskKind, listener_task, sender_task, nextTask, wire, sends >>

\* An attempt failed: the backoff delay is slept when attempts are left
\* (lines 750-752), else _reconnect returns False.
AttemptFails(t) ==
  IF attempt[t] < MaxAttempts
    THEN /\ taskPc' = [taskPc EXCEPT ![t] = "rc_sleep"]
         /\ UNCHANGED << taskKind, listener_task, sender_task, nextTask,
                         background_reconnect_task, wire, sends, held, attempt >>
    ELSE ReconnectFails(t)


\* The reachability probe at the start of _reconnect (lines 656-675): a
\* closed port marks the server unavailable and returns False at once.
RcProbe(t) ==
  /\ UNCHANGED << nonCnVars, call_ends, send_audio_pc >>
  /\ taskPc[t] = "rc_probe"
  /\ UNCHANGED << websocket, connState, was_connected >>
  /\ IF IsPortOpen
       THEN /\ server_unavailable' = FALSE
            /\ taskPc' = [taskPc EXCEPT ![t] = "rc_connect"]
            /\ attempt' = [attempt EXCEPT ![t] = 1]
            /\ UNCHANGED << taskKind, listener_task, sender_task, nextTask,
                            background_reconnect_task, wire, sends, held >>
       ELSE /\ server_unavailable' = TRUE
            /\ ReconnectFails(t)
  /\ UNCHANGED << port_open, faults, auth_token, connAuth, nextConn, taskConn,
                  send_queue, nextChunk >>

\* _connect_ws returns or raises (lines 697-698, 718, 744). A new connection
\* becomes self.websocket before it is authenticated.
RcConnect(t, outcome) ==
  /\ UNCHANGED << nonCnVars, call_ends, send_audio_pc >>
  /\ taskPc[t] = "rc_connect"
  /\ UNCHANGED server_unavailable
  /\ outcome # "ok" => faults < MaxFaults
  /\ faults' = IF outcome = "ok" THEN faults ELSE faults + 1
  /\ IF outcome = "ok"
       THEN /\ port_open
            /\ nextConn <= MaxConns
            /\ nextConn' = nextConn + 1
            /\ connState' = [connState EXCEPT ![nextConn] = "open"]
            /\ websocket' = nextConn
            /\ was_connected' = TRUE
            /\ taskConn' = [taskConn EXCEPT ![t] = nextConn]
            /\ IF auth_token
                 THEN /\ taskPc' = [taskPc EXCEPT ![t] = "rc_auth"]
                      /\ UNCHANGED << taskKind, listener_task, sender_task,
                                      nextTask, background_reconnect_task,
                                      wire, sends, held, attempt >>
                 ELSE ReconnectSucceeds(t)
       ELSE /\ UNCHANGED << nextConn, connState, websocket, was_connected,
                            taskConn >>
            /\ IF outcome = "oserror"
                 THEN /\ taskPc' = [taskPc EXCEPT ![t] = "rc_reprobe"]
                      /\ UNCHANGED << taskKind, listener_task, sender_task,
                                      nextTask, background_reconnect_task,
                                      wire, sends, held, attempt >>
                 ELSE AttemptFails(t)
  /\ UNCHANGED << port_open, auth_token, connAuth, send_queue, nextChunk >>

\* _authenticate returns or raises (lines 631-649, 701-704, 744): the
\* RuntimeError of a rejected or failed handshake is caught with the other
\* exceptions of the attempt.
RcAuth(t, outcome) ==
  /\ UNCHANGED << nonCnVars, call_ends, send_audio_pc >>
  /\ taskPc[t] = "rc_auth"
  /\ outcome # "ok" => faults < MaxFaults
  /\ faults' = IF outcome = "ok" THEN faults ELSE faults + 1
  /\ connAuth' = [connAuth EXCEPT ![taskConn[t]] = outcome]
  /\ UNCHANGED << websocket, connState, server_unavailable, was_connected >>
  /\ IF outcome = "ok" THEN ReconnectSucceeds(t) ELSE AttemptFails(t)
  /\ UNCHANGED << port_open, auth_token, nextConn, taskConn, send_queue,
                  nextChunk >>

\* The probe after a refused connect (lines 721-728).
RcReprobe(t) ==
  /\ UNCHANGED << nonCnVars, call_ends, send_audio_pc >>
  /\ taskPc[t] = "rc_reprobe"
  /\ UNCHANGED was_connected
  /\ IF IsPortOpen
       THEN /\ UNCHANGED server_unavailable
            /\ AttemptFails(t)
       ELSE /\ server_unavailable' = TRUE
            /\ ReconnectFails(t)
  /\ UNCHANGED << port_open, faults, auth_token, connState, connAuth,
                  nextConn, websocket, taskConn, send_queue, nextChunk >>

\* The backoff delay is over: the next attempt (lines 750-752).
RcSleep(t) ==
  /\ UNCHANGED << nonCnVars, call_ends, send_audio_pc >>
  /\ taskPc[t] = "rc_sleep"
  /\ taskPc' = [taskPc EXCEPT ![t] = "rc_connect"]
  /\ attempt' = [attempt EXCEPT ![t] = @ + 1]
  /\ UNCHANGED << port_open, faults, auth_token, connState, connAuth,
                  nextConn, websocket, server_unavailable, was_connected,
                  listener_task, sender_task, background_reconnect_task,
                  taskKind, taskConn, held, nextTask, send_queue, nextChunk,
                  wire, sends >>

(***************************************************************************)
(* start_session and initialize (lines 815-881).                           *)
(***************************************************************************)
\* start_session is called (lines 847-870): an OPEN websocket is reused, and
\* the listener and sender tasks are created again when missing or done;
\* otherwise initialize runs _reconnect.
StartSessionCall ==
  /\ UNCHANGED << nonCnVars, call_ends, send_audio_pc >>
  /\ Cardinality({u \in Tasks : taskKind[u] = "session"}) < MaxStartSessions
  /\ LET t == nextTask
         needL == TaskDone(listener_task)
         needS == TaskDone(sender_task)
         newL == t + 1
         newS == IF needL THEN t + 2 ELSE t + 1
         n == (IF needL THEN 1 ELSE 0) + (IF needS THEN 1 ELSE 0)
     IN IF IsConnected
          THEN /\ t + n <= MaxTasks
               /\ nextTask' = t + 1 + n
               /\ taskKind' = [u \in Tasks |->
                    IF u = t THEN "session"
                    ELSE IF needL /\ u = newL THEN "listener"
                    ELSE IF needS /\ u = newS THEN "sender"
                    ELSE taskKind[u]]
               /\ taskPc' = [u \in Tasks |->
                    IF u = t THEN "reused"
                    ELSE IF needL /\ u = newL THEN "start"
                    ELSE IF needS /\ u = newS THEN "get"
                    ELSE taskPc[u]]
               /\ taskConn' = [taskConn EXCEPT ![t] = websocket]
               /\ listener_task' = IF needL THEN newL ELSE listener_task
               /\ sender_task' = IF needS THEN newS ELSE sender_task
          ELSE /\ t <= MaxTasks
               /\ nextTask' = t + 1
               /\ taskKind' = [taskKind EXCEPT ![t] = "session"]
               /\ taskPc' = [taskPc EXCEPT ![t] = "rc_probe"]
               /\ UNCHANGED << taskConn, listener_task, sender_task >>
  /\ UNCHANGED << port_open, faults, auth_token, connState, connAuth,
                  nextConn, websocket, server_unavailable, was_connected,
                  background_reconnect_task, attempt, held, send_queue,
                  nextChunk, wire, sends >>

(***************************************************************************)
(* _send_loop (lines 1007-1078) and the callers of the outbound queue.     *)
(***************************************************************************)
\* send_audio (lines 992-1005): one more chunk is enqueued.
SendAudio ==
  /\ UNCHANGED << nonCnVars, call_ends >>
  /\ send_audio_pc = "idle"
  /\ nextChunk <= MaxAudio
  /\ IF Len(send_queue) < SendQueueCap
       THEN /\ send_queue' = Append(send_queue, nextChunk)
            /\ nextChunk' = nextChunk + 1
            /\ UNCHANGED send_audio_pc
       ELSE /\ send_audio_pc' = "put_wait"
            /\ UNCHANGED << send_queue, nextChunk >>
  /\ UNCHANGED << port_open, faults, auth_token, connState, connAuth,
                  nextConn, websocket, server_unavailable, was_connected,
                  listener_task, sender_task, background_reconnect_task,
                  taskKind, taskPc, taskConn, attempt, held, nextTask, wire,
                  sends >>

\* The put of send_audio goes through once the queue has room (line 1001).
SendAudioPutResumes ==
  /\ UNCHANGED << nonCnVars, call_ends >>
  /\ send_audio_pc = "put_wait"
  /\ Len(send_queue) < SendQueueCap
  /\ send_queue' = Append(send_queue, nextChunk)
  /\ nextChunk' = nextChunk + 1
  /\ send_audio_pc' = "idle"
  /\ UNCHANGED << port_open, faults, auth_token, connState, connAuth,
                  nextConn, websocket, server_unavailable, was_connected,
                  listener_task, sender_task, background_reconnect_task,
                  taskKind, taskPc, taskConn, attempt, held, nextTask, wire,
                  sends >>

\* stop_session (lines 1220-1246), as far as the connection goes: the
\* outbound queue is drained; the websocket and every task are left as they
\* are.
StopSessionDrain ==
  /\ UNCHANGED << nonCnVars, send_audio_pc >>
  /\ send_queue # << >> \/ call_ends < MaxCallEnds
  /\ send_queue' = << >>
  /\ call_ends' = IF call_ends < MaxCallEnds THEN call_ends + 1 ELSE call_ends
  /\ UNCHANGED << port_open, faults, auth_token, connState, connAuth,
                  nextConn, websocket, server_unavailable, was_connected,
                  listener_task, sender_task, background_reconnect_task,
                  taskKind, taskPc, taskConn, attempt, held, nextTask,
                  nextChunk, wire, sends >>

\* clear_active_call_id (lines 1248-1266), as far as the connection goes:
\* nothing of the connection and no task is touched.
ClearActiveCallIdEnds ==
  /\ UNCHANGED << nonCnVars, send_audio_pc >>
  /\ call_ends < MaxCallEnds
  /\ call_ends' = call_ends + 1
  /\ UNCHANGED << port_open, faults, auth_token, connState, connAuth,
                  nextConn, websocket, server_unavailable, was_connected,
                  listener_task, sender_task, background_reconnect_task,
                  taskKind, taskPc, taskConn, attempt, held, nextTask,
                  send_queue, nextChunk, wire, sends >>

\* One turn of the send loop (lines 1012-1063): everything queued is taken
\* as one batch and sent on self.websocket; ConnectionClosed starts
\* _reconnect with the batch kept, any other error drops the batch.
SenderSend(t) ==
  /\ UNCHANGED << nonCnVars, call_ends, send_audio_pc >>
  /\ taskKind[t] = "sender"
  /\ taskPc[t] = "get"
  /\ send_queue # << >>
  /\ send_queue' = << >>
  /\ sends' = [sends EXCEPT ![Head(send_queue)] = @ + 1]
  /\ IF websocket = 0
       THEN /\ taskPc' = [taskPc EXCEPT ![t] = "pace"]
            /\ UNCHANGED << wire, held >>
       ELSE IF connState[websocket] = "open"
         THEN /\ wire' = Append(wire, [conn |-> websocket, batch |-> send_queue])
              /\ taskPc' = [taskPc EXCEPT ![t] = "pace"]
              /\ UNCHANGED held
         ELSE /\ held' = [held EXCEPT ![t] = send_queue]
              /\ taskPc' = [taskPc EXCEPT ![t] = "rc_probe"]
              /\ UNCHANGED wire
  /\ UNCHANGED << port_open, faults, auth_token, connState, connAuth,
                  nextConn, websocket, server_unavailable, was_connected,
                  listener_task, sender_task, background_reconnect_task,
                  taskKind, taskConn, attempt, nextTask, nextChunk >>

\* The pacing sleep is over (line 1073).
SenderPace(t) ==
  /\ UNCHANGED << nonCnVars, call_ends, send_audio_pc >>
  /\ taskKind[t] = "sender"
  /\ taskPc[t] = "pace"
  /\ taskPc' = [taskPc EXCEPT ![t] = "get"]
  /\ UNCHANGED << port_open, faults, auth_token, connState, connAuth,
                  nextConn, websocket, server_unavailable, was_connected,
                  listener_task, sender_task, background_reconnect_task,
                  taskKind, taskConn, attempt, held, nextTask, send_queue,
                  nextChunk, wire, sends >>

(***************************************************************************)
(* _receive_loop (lines 1269-1441): its connection handling.               *)
(***************************************************************************)
\* The receive loop starts iterating self.websocket (line 1271); without a
\* websocket the loop ends in its outer handler (line 1440).
ListenerStart(t) ==
  /\ UNCHANGED << nonCnVars, call_ends, send_audio_pc >>
  /\ taskKind[t] = "listener"
  /\ taskPc[t] = "start"
  /\ taskConn' = [taskConn EXCEPT ![t] = websocket]
  /\ taskPc' = [taskPc EXCEPT ![t] = IF websocket = 0 THEN "done" ELSE "recv"]
  /\ UNCHANGED << port_open, faults, auth_token, connState, connAuth,
                  nextConn, websocket, server_unavailable, was_connected,
                  listener_task, sender_task, background_reconnect_task,
                  taskKind, attempt, held, nextTask, send_queue, nextChunk,
                  wire, sends >>

\* The connection the loop iterates is closed: a normal closure ends the
\* iteration and the loop, an abnormal one raises ConnectionClosed and the
\* handler runs _reconnect (lines 1419-1423).
ListenerConnectionClosed(t, how) ==
  /\ UNCHANGED << nonCnVars, call_ends, send_audio_pc >>
  /\ taskKind[t] = "listener"
  /\ taskPc[t] = "recv"
  /\ connState[taskConn[t]] = "closed"
  /\ taskPc' = [taskPc EXCEPT ![t] = IF how = "ok" THEN "done" ELSE "rc_probe"]
  /\ UNCHANGED << port_open, faults, auth_token, connState, connAuth,
                  nextConn, websocket, server_unavailable, was_connected,
                  listener_task, sender_task, background_reconnect_task,
                  taskKind, taskConn, attempt, held, nextTask, send_queue,
                  nextChunk, wire, sends >>

(***************************************************************************)
(* _background_reconnect_loop (lines 757-805).                             *)
(***************************************************************************)
\* The twelve minutes are over (lines 775-780, 805).
BgTimeout(t) ==
  /\ UNCHANGED << nonCnVars, call_ends, send_audio_pc >>
  /\ taskKind[t] = "background"
  /\ taskPc[t] = "bg_sleep"
  /\ taskPc' = [taskPc EXCEPT ![t] = "done"]
  /\ background_reconnect_task' = 0
  /\ UNCHANGED << port_open, faults, auth_token, connState, connAuth,
                  nextConn, websocket, server_unavailable, was_connected,
                  listener_task, sender_task, taskKind, taskConn, attempt,
                  held, nextTask, send_queue, nextChunk, wire, sends >>

\* The periodic check finds the port open and calls _reconnect (lines
\* 783-788); a closed port leaves the loop sleeping.
BgProbe(t) ==
  /\ UNCHANGED << nonCnVars, call_ends, send_audio_pc >>
  /\ taskKind[t] = "background"
  /\ taskPc[t] = "bg_sleep"
  /\ IsPortOpen
  /\ taskPc' = [taskPc EXCEPT ![t] = "rc_probe"]
  /\ UNCHANGED << port_open, faults, auth_token, connState, connAuth,
                  nextConn, websocket, server_unavailable, was_connected,
                  listener_task, sender_task, background_reconnect_task,
                  taskKind, taskConn, attempt, held, nextTask, send_queue,
                  nextChunk, wire, sends >>

(***************************************************************************)
(* The backend: connections close, the port opens and closes.              *)
(***************************************************************************)
\* An open connection is closed by the peer or the network.
ConnCloses(c) ==
  /\ UNCHANGED << nonCnVars, call_ends, send_audio_pc >>
  /\ connState[c] = "open"
  /\ faults < MaxFaults
  /\ faults' = faults + 1
  /\ connState' = [connState EXCEPT ![c] = "closed"]
  /\ UNCHANGED << port_open, auth_token, connAuth, nextConn, websocket,
                  server_unavailable, was_connected, listener_task,
                  sender_task, background_reconnect_task, taskKind, taskPc,
                  taskConn, attempt, held, nextTask, send_queue, nextChunk,
                  wire, sends >>

\* The backend starts or stops listening.
PortFlips ==
  /\ UNCHANGED << nonCnVars, call_ends, send_audio_pc >>
  /\ faults < MaxFaults
  /\ faults' = faults + 1
  /\ port_open' = ~port_open
  /\ UNCHANGED << auth_token, connState, connAuth, nextConn, websocket,
                  server_unavailable, was_connected, listener_task,
                  sender_task, background_reconnect_task, taskKind, taskPc,
                  taskConn, attempt, held, nextTask, send_queue, nextChunk,
                  wire, sends >>

CnNext ==
  \/ StartSessionCall
  \/ \E t \in Tasks : RcProbe(t)
  \/ \E t \in Tasks : \E outcome \in {"ok", "oserror", "other"} : RcConnect(t, outcome)
  \/ \E t \in Tasks : \E outcome \in {"ok", "rejected"} : RcAuth(t, outcome)
  \/ \E t \in Tasks : RcReprobe(t)
  \/ \E t \in Tasks : RcSleep(t)
  \/ SendAudio
  \/ SendAudioPutResumes
  \/ StopSessionDrain
  \/ ClearActiveCallIdEnds
  \/ \E t \in Tasks : SenderSend(t)
  \/ \E t \in Tasks : SenderPace(t)
  \/ \E t \in Tasks : ListenerStart(t)
  \/ \E t \in Tasks : \E how \in {"ok", "error"} : ListenerConnectionClosed(t, how)
  \/ \E t \in Tasks : BgTimeout(t)
  \/ \E t \in Tasks : BgProbe(t)
  \/ \E c \in Conns : ConnCloses(c)
  \/ PortFlips

(***************************************************************************)
(* Specifications. Each one runs one part of the program and holds the     *)
(* other parts in their state after construction.                          *)
(***************************************************************************)
GwIdle == GwInit /\ mode = "full" /\ tool_gateway_enabled

StIdle == StInit /\ audio_transport = "audiosocket"

ClIdle == ClInit /\ clCfg = [chunk_size_ms |-> 20, jitter_buffer_ms |-> 50,
                             min_start_ms |-> 120, greeting_min_start_ms |-> 0,
                             low_watermark_ms |-> 80]

CnIdle == CnInit /\ port_open /\ ~auth_token

PfIdle == fnCall = NoCall /\ fnResult = NoResult

Init == GwInit /\ StInit /\ ClInit /\ CnInit /\ PfInit

\* The provider runs; the playback engine is idle.
InitGateway == GwInit /\ StIdle /\ ClIdle /\ CnIdle /\ PfIdle

SpecGateway == InitGateway /\ [][GwNext]_vars

\* The playback engine runs; the provider is idle.
InitStream == StInit /\ GwIdle /\ ClIdle /\ CnIdle /\ PfIdle

SpecStream == InitStream /\ [][StNext]_vars

\* One stream and the reaper, with either size of jitter buffer.
InitOneStream ==
  /\ cfg \in StreamConfigs \cup SmallBufferConfigs
  /\ StInitRest
  /\ GwIdle /\ ClIdle /\ CnIdle /\ PfIdle

SpecOneStream == InitOneStream /\ [][OneStreamNext]_vars

\* The threshold computation runs on its own.
InitClamp == ClInit /\ GwIdle /\ StIdle /\ CnIdle /\ PfIdle

SpecClamp == InitClamp /\ [][ClNext]_vars

\* The connection management of the local provider alone.
InitConn == CnInit /\ GwIdle /\ StIdle /\ ClIdle /\ PfIdle

SpecConn == InitConn /\ [][CnNext]_vars

\* One call of a pure function with any of its inputs.
InitFn == PfInit /\ fnCall # NoCall /\ GwIdle /\ StIdle /\ ClIdle /\ CnIdle

SpecFn == InitFn /\ [][PfNext]_vars

(***************************************************************************)
(* Claims about the tool-call gateway (SpecGateway).                       *)
(***************************************************************************)
ToolCallEventsOf(r) ==
  {i \in DOMAIN events : events[i].type = "ToolCall" /\ events[i].turn = r}

\* C1: for every request id, whatever the interleaving of the
\* llm_tool_response handler and the request's timeout task, the result is
\* finalized at most once and at most one ToolCall event is emitted for the
\* turn.
C1_AtMostOneFinalization ==
  \A r \in Rids :
     /\ finalized[r] <= 1
     /\ Cardinality(ToolCallEventsOf(r)) <= 1

\* C1's case: a dispatched request whose structured response won the race
\* and cancelled the sleeping timeout task, with its ToolCall event emitted.
C1_Witness ==
  \E r \in Rids :
     /\ dispatched[r]
     /\ finalPath[r] = "structured"
     /\ timeoutPc[r] = "cancelled"
     /\ ToolCallEventsOf(r) # {}

\* A request is settled when nothing can finalize it any more: its entry is
\* gone and its timeout task has ended.
Settled(r) ==
  /\ r \notin pending_llm_tool_responses
  /\ timeoutPc[r] \in {"cancelled", "done"}

\* C2: every dispatched llm_tool_request whose call was not stopped or
\* cleared produces exactly one final result, by the structured response or
\* by the timeout task's parser fallback: once nothing is left to act on the
\* request, it has been finalized exactly once.
C2_DispatchedFinalizedOnce ==
  \A r \in Rids :
     (dispatched[r] /\ ~stoppedOrCleared[r] /\ Settled(r))
        => (finalized[r] = 1 /\ finalPath[r] \in {"structured", "timeout"})

\* C4: every tool call of every emitted ToolCall event has a name in the
\* allow-list in force when the event was emitted, for every allow-list,
\* the empty one included.
C4_EmittedToolsAllowed ==
  \A i \in DOMAIN events :
     events[i].type = "ToolCall" =>
        \A j \in DOMAIN events[i].tool_calls :
           events[i].tool_calls[j].name \in events[i].allowed

(***************************************************************************)
(* Claims about the streaming playback engine (SpecStream, SpecClamp).     *)
(***************************************************************************)
\* C3: cleanup of a stream is idempotent under every invocation pattern,
\* two overlapping cleanups of the same stream included: for every stream
\* the carried remainder is flushed to the transport at most once and its
\* gating is cleared at most once.
C3_CleanupIdempotent ==
  \A s \in Streams : flushed[s] <= 1 /\ gating_cleared[s] <= 1

\* C5: at every moment at most one drain task is in its loop and at most
\* one keepalive task is alive for the call.
C5_OneDrainOneKeepalive ==
  /\ Cardinality({s \in Streams : drainPc[s] \in DrainLoopPcs}) <= 1
  /\ Cardinality({s \in Streams : kaPc[s] \in {"sleep", "fallback"}}) <= 1

\* C6: for every configuration and every playback type the record created
\* by start has 1 <= min_start_chunks <= capacity and
\* 0 <= low_watermark_chunks <= capacity of the jitter buffer.
C6_ThresholdsWithinCapacity ==
  clRec # NoRecord =>
    /\ 1 <= clRec.min_start_chunks
    /\ clRec.min_start_chunks <= clRec.jitter_buffer_chunks
    /\ 0 <= clRec.low_watermark_chunks
    /\ clRec.low_watermark_chunks <= clRec.jitter_buffer_chunks

\* C6's case: a record whose configured warm-up and low watermark both
\* exceed the capacity, so that both were clamped.
C6_Witness ==
  /\ clRec # NoRecord
  /\ StreamMinStart_Unclamped(clCfg, clRec.playback_type) > clRec.jitter_buffer_chunks
  /\ LowWatermarkChunks(clCfg) > clRec.jitter_buffer_chunks

\* C7: no frame of a stream is sent to the transport before its jitter
\* buffer has held min_start_chunks chunks at once, and the step that first
\* brings the buffer to min_start_chunks makes the stream startup_ready.
C7_NoFrameBeforeWarmup ==
  [][\A s \in Streams :
        /\ frames_sent'[s] # frames_sent[s] => reachedMin[s]
        /\ (~reachedMin[s] /\ reachedMin'[s]) => startup_ready' = "True"]_vars

\* The drain loop of stream s, having met a timeout or a refused send, runs
\* its fallback step.
DrainFallbackStep(s) ==
  /\ drainPc[s] = "fallback"
  /\ drainPc'[s] = "c_flush"
  /\ endPath'[s] \in {"timeout", "transport-failure"}

\* C8: on a drain timeout or a refused send the drain loop has recorded a
\* reason, hands all the audio still in its jitter buffer, in order, to the
\* fallback player, and goes on to cleanup.
C8_FailureHandsBufferToFallback ==
  [][\A s \in Streams :
        DrainFallbackStep(s) =>
          /\ last_streaming_error # "none"
          /\ buf'[s] = << >>
          /\ buf[s] # << >> =>
               played' = Append(played, [stream_id |-> s, by |-> "drain",
                                         audio |-> buf[s]])]_vars

\* C9: once the keepalive loop of a stream has handled a connection timeout
\* (reason recorded, fallback triggered), the stream is ended: no frame of
\* that stream is sent to the transport afterwards.
C9_NoFrameAfterKeepaliveFallback ==
  [][\A s \in Streams :
        kaPc[s] = "timed_out" =>
          /\ last_streaming_error # "none"
          /\ frames_sent'[s] = frames_sent[s]]_vars

\* The call has an active stream: a record whose drain task runs.
HasActiveStream ==
  \E r \in active_streams : drainPc[r.stream_id] \in DrainLoopPcs \cup CleanupPcs

engineState ==
  << active_streams, jitter_buffers, keepalive_tasks, startup_ready,
     frame_remainders, buf, drainPc, cur, pend, endPath, kaPc,
     streaming_started, current_stream_id, gating_tokens,
     last_streaming_error, frames_sent, flushed, gating_cleared, played,
     first_send_logged >>

\* C11: stop returns False and changes nothing when the call has no stream
\* record; otherwise it cancels the drain task and the keepalive task, runs
\* the cleanup and returns True, and at that return is_stream_active is False.
C11_StopContract ==
  [][/\ (stopPc = "idle" /\ active_streams = {} /\ stop_result' # stop_result) =>
          /\ stop_result' = "False"
          /\ stopPc' = "idle"
          /\ UNCHANGED engineState
     /\ (stopPc = "idle" /\ stopPc' # "idle") =>
          /\ active_streams # {}
          /\ drainPc'[Rec.stream_id] \notin DrainLoopPcs
          /\ keepalive_tasks # 0 => kaPc'[keepalive_tasks] \notin {"sleep", "fallback"}
          /\ stopPc' = "c_flush"
     /\ (stopPc = "c_sess" /\ stopPc' = "idle") =>
          /\ stop_result' = "True"
          /\ ~IsStreamActive']_vars

\* A _cleanup_stream of stream s completes: the one of its drain task's
\* finally block, or the one run by the caller of stop.
CleanupCompletes(s) ==
  \/ drainPc[s] = "c_sess" /\ drainPc'[s] = "done" /\ stopPc' = stopPc
  \/ stopPc = "c_sess" /\ stopPc' = "idle" /\ stopSid = s

\* C12: when a cleanup of a call's stream completes the engine holds no
\* per-call state for the call: no stream record, no jitter buffer, no
\* startup-ready flag, no frame remainder, no keepalive-task entry, no
\* first-send marker; the stream's gating token is cleared and the session's
\* streaming flags are reset.
C12_NoStateAfterCleanup ==
  [][\A s \in Streams :
        CleanupCompletes(s) =>
          /\ active_streams' = {}
          /\ jitter_buffers' = 0
          /\ startup_ready' = "absent"
          /\ frame_remainders' = 0
          /\ keepalive_tasks' = 0
          /\ ~first_send_logged'
          /\ s \notin gating_tokens'
          /\ ~streaming_started'
          /\ current_stream_id' = 0]_vars

(***************************************************************************)
(* Claims about the connection management of the local provider.           *)
(***************************************************************************)
\* The step in which task t's reachability probe of _reconnect returns. A
\* step that cancels t creates tasks; the probe's own step does not.
ProbeReturns(t) ==
  /\ taskPc[t] = "rc_probe"
  /\ taskPc'[t] # "rc_probe"
  /\ nextTask' = nextTask

\* C13: when the probe at the start of a connect finds the port closed, the
\* server is marked unavailable and the connect returns failure at once: no
\* connection is made, no backoff delay is slept, and initialize returns
\* without raising.
C13_ClosedPortSkips ==
  [][\A t \in Tasks : (ProbeReturns(t) /\ ~port_open) =>
        /\ server_unavailable'
        /\ nextConn' = nextConn
        /\ websocket' = websocket
        /\ taskPc'[t] \notin ReconnectPcs
        /\ taskKind[t] = "session" => taskPc'[t] = "returned"]_vars

C13_Witness ==
  \E t \in Tasks :
    /\ taskKind[t] = "session"
    /\ taskPc[t] = "returned"
    /\ server_unavailable
    /\ ~port_open
    /\ nextConn = 1

\* C14: a connection whose auth handshake was rejected or failed is never
\* used as the session's connection afterwards: is_connected is false for
\* it, start_session does not reuse it, no receive loop iterates it and no
\* send loop writes audio on it.
C14_RejectedNeverUsed ==
  \A c \in Conns : connAuth[c] = "rejected" =>
    /\ ~(websocket = c /\ IsConnected)
    /\ \A t \in Tasks : ~(taskPc[t] = "reused" /\ taskConn[t] = c)
    /\ \A t \in Tasks :
         ~(taskKind[t] = "listener" /\ taskPc[t] = "recv" /\ taskConn[t] = c)
    /\ \A i \in 1..Len(wire) : wire[i].conn # c

\* The send loop of task t is handling a ConnectionClosed of its first send:
\* it is inside the one _reconnect call it makes for the batch it holds.
Resending(t) == taskKind[t] = "sender" /\ taskPc[t] \in ReconnectPcs

\* C15: a batch whose send failed gets exactly one reconnect-and-resend
\* attempt: no batch is sent a third time, a send loop that holds a batch is
\* in its reconnect, the batch is given up when the reconnect ends, and a
\* send loop goes on with later batches.
C15_OneResend ==
  /\ \A k \in Chunks : sends[k] <= 2
  /\ \A t \in Tasks : held[t] # << >> => Resending(t)
  /\ \A t \in Tasks : (taskKind[t] = "sender" /\ taskPc[t] = "done") =>
        \E u \in Tasks : u > t /\ taskKind[u] = "sender"

C15_Witness ==
  \E k \in Chunks :
    /\ sends[k] = 2
    /\ \E i \in 1..Len(wire) : k = Head(wire[i].batch)
    /\ \E j \in Chunks : j > k /\ sends[j] >= 1

\* The send loops that can still take from the outbound queue or write.
LiveSenders == {t \in Tasks : taskKind[t] = "sender" /\ ~TaskDone(t)}

\* The chunks written on the connections, in the order they were written.
RECURSIVE Flatten(_)
Flatten(w) == IF w = << >> THEN << >> ELSE Head(w).batch \o Flatten(Tail(w))

C17_MalformedNeverFatal ==
  [][(listenerPc = "idle" /\ websocketOpen /\ websocketOpen') =>
        listenerPc' # "dead"]_vars

\* The events a step hands to on_event.
NewEvents == {events'[i] : i \in (Len(events) + 1)..Len(events')}

\* C18: a ToolCall event carries a transfer-type tool call only when the
\* last final utterance of the event's call shows transfer intent.
C18_TransferNeedsIntent ==
  [][\A e \in NewEvents : e.type = "ToolCall" =>
        \A k \in 1..Len(e.tool_calls) :
          e.tool_calls[k].name \in TransferTools =>
            (e.call_id \in CallIds /\ transfer_intent[e.call_id])]_vars

HasHangup(calls) == \E k \in 1..Len(calls) : calls[k].name = "hangup_call"

\* C19: for a turn whose finalized tool calls include hangup_call, the text
\* of the ToolCall event and of the transcript event before it is the
\* farewell_message when there is one, and carries no tool-execution
\* narration.
C19_FarewellWithoutNarration ==
  \A i \in DOMAIN events :
    LET e == events[i]
        farewell == ExtractHangupFarewell(e.tool_calls)
    IN (e.type = "ToolCall" /\ HasHangup(e.tool_calls)) =>
         /\ e.text \notin NarratedTexts
         /\ (farewell # "" /\ farewell \notin NarratedTexts) => e.text = farewell
         /\ (i > 1 /\ events[i - 1].turn = e.turn) => events[i - 1].text = e.text

\* C20: in the events of every run of _emit_local_llm_result the transcript
\* event comes before the ToolCall event, and in the whole event sequence
\* every ToolCall event of a turn that has a transcript event is preceded by
\* a transcript event of that turn.
C20_TranscriptBeforeToolCall ==
  \A i \in DOMAIN events :
    (/\ events[i].type = "ToolCall"
     /\ \E j \in DOMAIN events :
           events[j].type = "agent_transcript" /\ events[j].turn = events[i].turn)
    => \E j \in 1..(i - 1) :
           events[j].type = "agent_transcript" /\ events[j].turn = events[i].turn

C20_Witness ==
  \E i \in DOMAIN events :
    /\ events[i].type = "ToolCall"
    /\ i > 1
    /\ events[i - 1].type = "agent_transcript"
    /\ events[i - 1].turn = events[i].turn

(***************************************************************************)
(* Claims about the pure functions.                                        *)
(***************************************************************************)
\* What the last capability probe stands for.
ProbePolicy(level) ==
  IF level = "strict" THEN "strict"
  ELSE IF level = "none" THEN "off"
  ELSE "compatible"

\* C21: the resolved policy is one of strict, compatible, off; an explicit
\* override wins, else an explicit configuration wins, and the capability
\* probe decides only when neither names an explicit policy.
C21_PolicyPriority ==
  (fnCall.fn = "resolve_tool_policy" /\ fnResult.done) =>
    /\ fnResult.policy \in ExplicitPolicies
    /\ fnResult.policy =
         IF fnCall.override \in ExplicitPolicies THEN fnCall.override
         ELSE IF fnCall.configured \in ExplicitPolicies THEN fnCall.configured
         ELSE ProbePolicy(fnCall.level)

\* C24: with equal rates resample_audio returns its input unchanged and a
\* cleared state (None), whatever state came in.
C24_IdentityClearsState ==
  (/\ fnCall.fn = "resample_audio"
   /\ fnResult.done
   /\ fnCall.source_rate = fnCall.target_rate) =>
    /\ fnResult.res.out = fnCall.pcm
    /\ fnResult.res.state = << >>

\* C25: with different rates A and B a non-empty input of N samples gives
\* round(N * B / A) samples, with and without a carried state: the number
\* of samples returned is an integer nearest to N * B / A.
C25_ExactLength ==
  (/\ fnCall.fn = "resample_audio"
   /\ fnResult.done
   /\ fnCall.pcm # << >>
   /\ fnCall.source_rate # fnCall.target_rate) =>
    LET n == Len(fnResult.res.out) * fnCall.source_rate
        m == Len(fnCall.pcm) * fnCall.target_rate
    IN 2 * (IF n >= m THEN n - m ELSE m - n) <= fnCall.source_rate

C25_Witness ==
  /\ fnCall.fn = "resample_audio"
  /\ fnResult.done
  /\ fnCall.state # << >>
  /\ fnCall.source_rate = 8000
  /\ fnCall.target_rate = 24000
  /\ Len(fnCall.pcm) = 2
  /\ Len(fnResult.res.out) = 6

(***************************************************************************)
(* Further claims about the tool gateway.                                  *)
(***************************************************************************)
\* The four conditions under which the structured gateway is used.
GatewayConditions ==
  /\ tool_gateway_enabled
  /\ mode = "full"
  /\ effective_tool_policy # "off"
  /\ allowed_tools # {}

\* C22: a request is registered and sent for a new LLM text only when the
\* gateway is enabled, the mode is full, the policy is not off and the
\* allow-list is not empty; otherwise nothing is registered or sent and the
\* turn is finalized on the parser path, at once or after the repair turn
\* the receive loop waits for.
C22_GatewayOnlyWhenActive ==
  [][/\ (nextTurn' # nextTurn) =>
          LET t == nextTurn
          IN IF GatewayConditions
               THEN listenerPc' = "dispatch_send" /\ t \in pending_llm_tool_responses'
               ELSE /\ t \notin pending_llm_tool_responses'
                    /\ listenerPc' # "dispatch_send"
                    /\ \/ finalPath'[t] = "parser"
                       \/ listenerPc' = "repair_wait" /\ listenerTurn' = t
     /\ (listenerPc = "repair_wait" /\ listenerPc' # "repair_wait") =>
          finalPath'[listenerTurn] = "parser"
     /\ (dispatched' # dispatched) => (listenerPc = "dispatch_send" /\ GatewayConditions)]_vars

C22_Witness ==
  /\ mode = "stt"
  /\ tool_gateway_enabled
  /\ effective_tool_policy # "off"
  /\ allowed_tools # {}
  /\ turnCall[1] \in CallIds
  /\ finalPath[1] = "parser"
  /\ ~dispatched[1]
  /\ \E i \in DOMAIN events : events[i].type = "ToolCall"

\* C23: an llm_tool_response dropped as stale (empty or unknown request id,
\* or an entry the timeout or the end of the call has already taken) emits
\* no event, cancels no timeout task and leaves the table and the state of
\* every request as they are.
C23_StaleDropped ==
  [][(staleDrops' # staleDrops) =>
        UNCHANGED << events, pending_llm_tool_responses, llm_tool_timeout_tasks,
                     timeoutPc, finalized, finalPath, dispatched, listenerPc >>]_vars

\* A response arrived after the timeout task had claimed its request, and
\* the turn was finished by the fallback.
C23_Witness ==
  /\ staleDrops = << "claimed" >>
  /\ finalPath[1] = "timeout"
  /\ 1 \notin pending_llm_tool_responses

\* The pieces of a clean text that are tool markup or JSON.
MarkupPieces ==
  {"bare_name", "markdown_name", "full", "cut_args", "cut_noargs"}

\* The text names a tool, with or without markup around the name, and ends
\* in a JSON object that is cut off.
IsTruncatedToolText(t) ==
  /\ t.marker \in {"bare_name", "markdown_name"}
  /\ t.json \in {"cut_args", "cut_noargs"}
  /\ ~t.closing
  /\ ~t.trail

\* C26: for a text that names a tool and ends in a JSON object cut off
\* mid-stream, parse_response_with_tools returns a tool call with that tool's
\* name, with the parameters that were complete and none otherwise, and a
\* clean text without tool markup or JSON.
C26_TruncatedRecoversName ==
  (/\ fnCall.fn = "parse_response_with_tools"
   /\ fnResult.done
   /\ IsTruncatedToolText(fnCall.text))
  => /\ fnResult.res.calls =
          << TC("hangup_call",
                IF fnCall.text.json = "cut_args" THEN "Bye" ELSE "") >>
     /\ \A i \in DOMAIN fnResult.res.clean :
           fnResult.res.clean[i] \notin MarkupPieces

\* The background reconnect task is still running.
BackgroundRunning ==
  /\ background_reconnect_task # 0
  /\ ~TaskDone(background_reconnect_task)
  /\ taskPc[background_reconnect_task] # "cancelled"

\* C27: when stop_session or clear_active_call_id ends the call while the
\* background reconnect task is still running, the task is cancelled by that
\* step, so that it probes and connects no more.
C27_CallEndCancelsBackground ==
  [][(call_ends' # call_ends /\ BackgroundRunning)
       => taskPc'[background_reconnect_task] = "cancelled"]_vars

\* C28: every barge_in message notify_barge_in sends carries the call id and
\* a request_id, the key under which the acknowledgement is awaited.
C28_BargeInCarriesRequestId ==
  \A i \in DOMAIN barge_ins_sent :
     /\ "call_id" \in DOMAIN barge_ins_sent[i]
     /\ "request_id" \in DOMAIN barge_ins_sent[i]

\* A connect attempt of task t fails in this step: _connect_ws or
\* _authenticate raises.
FailedAttemptStep(t) ==
  /\ taskPc[t] \in {"rc_connect", "rc_auth"}
  /\ faults' # faults
  /\ taskPc'[t] # taskPc[t]

\* C29: after every failed connect attempt of the backoff schedule the port
\* is re-checked, and with the port closed the connect operation stops: no
\* delay of the schedule is begun after a failed attempt while the port is
\* closed.
C29_NoDelayOnClosedPort ==
  [][\A t \in Tasks :
       (FailedAttemptStep(t) /\ ~port_open) => taskPc'[t] # "rc_sleep"]_vars

\* C30: when the cleanup of a stream that ended on the end marker completes,
\* no chunk the drain loop received is left unsent in its jitter buffer: each
\* was sent to the transport or handed to the fallback player.
C30_NoChunkLeftBehind ==
  [][\A s \in Streams :
        (/\ drainPc[s] = "c_sess"
         /\ drainPc'[s] = "done"
         /\ stopPc' = stopPc
         /\ endPath[s] = "end-of-stream") => buf'[s] = << >>]_vars

\* C36: after every resample_audio call with a non-empty input and two
\* different rates the returned state holds the last raw input sample of
\* that call, also when the output has no sample.
C36_StateIsLastSample ==
  (/\ fnCall.fn = "resample_audio"
   /\ fnResult.done
   /\ fnCall.pcm # << >>
   /\ fnCall.source_rate # fnCall.target_rate)
  => fnResult.res.state = << fnCall.pcm[Len(fnCall.pcm)] >>

\* C35: send_audio never blocks its caller: the caller never waits at the
\* put of a full outbound queue.
C35_SendAudioNeverBlocks == send_audio_pc # "put_wait"

\* C34: a repair request the receive loop itself started is resolved by the
\* matching llm_response when the backend sent it before the timeout: the
\* wait never ends with that answer still unread, and the answer is never
\* dropped as stale.
C34_RepairAnswerResolves ==
  [][/\ (listenerPc = "repair_wait" /\ listenerPc' = "idle")
          => repairAnswer # "sent"
     /\ repairAnswer' # "stale"]_vars

\* The session has reached authenticated: a connection passed the auth
\* handshake, or was opened when no auth token is configured.
ReachedAuthenticated ==
  \E c \in Conns :
     IF auth_token THEN connAuth[c] = "ok" ELSE connState[c] # "none"

\* C33: a background reconnect task is started only for a session that had
\* reached authenticated before; a session whose authentication never
\* succeeded never starts one.
C33_BackgroundOnlyAfterAuthenticated ==
  taskPc[BgTask] # "none" => ReachedAuthenticated

(***************************************************************************)
(* C31: on AudioSocket the frames sent for a stream, the flushed remainder *)
(* included, are the bytes its loop took off its queue, in order, none     *)
(* twice and none left out. Each frame sent by the loop is FrameSize       *)
(* bytes of `pending`; for the flush this asks that a remainder is flushed *)
(* for a stream once only, and that it holds the bytes this stream stored  *)
(* right after its last frame.                                             *)
(***************************************************************************)
C31_FramesAreTheBytesTaken ==
  [][\A s \in Streams :
        flushed'[s] # flushed[s]
          => /\ flushed[s] = 0
             /\ remainder_of =
                  [stream |-> s, offset |-> frames_sent[s] * FrameSize]]_vars

(***************************************************************************)
(* C32: whenever a frame goes to the transport for a stream, from the loop *)
(* or from the remainder flush, the stream's gating token is set.          *)
(***************************************************************************)
C32_TokenHeldWhileSending ==
  [][\A s \in Streams :
        (frames_sent'[s] # frames_sent[s] \/ flushed'[s] # flushed[s])
          => s \in gating_tokens]_vars

(***************************************************************************)
(* C39: a start that returns failure leaves no trace: when gating is       *)
(* refused, the engine holds no jitter buffer, record or task of that      *)
(* start, and the session does not name it as its current stream or stay   *)
(* marked as streaming on its account.                                     *)
(***************************************************************************)
C39_FailedStartLeavesNoTrace ==
  [][\A k \in Streams :
        (startPc[k] = "gating" /\ startPc'[k] = "failed")
          => /\ jitter_buffers' # k
             /\ \A r \in active_streams' : r.stream_id # k
             /\ drainPc'[k] = "none" /\ kaPc'[k] = "none"
             /\ current_stream_id' # k
             /\ streaming_started' => active_streams' # {}]_vars

(***************************************************************************)
(* C38: once cleanup_expired_streams has cleaned up a stream and returned, *)
(* that stream's drain task sends no further frame to the transport and    *)
(* its keepalive task calls no fallback.                                   *)
(***************************************************************************)
C38_ReapedStreamIsSilent ==
  [][\A s \in Streams :
        (reapPc = "returned" /\ reapSid = s)
          => /\ frames_sent'[s] = frames_sent[s]
             /\ ~(kaPc[s] = "fallback" /\ kaPc'[s] = "timed_out")]_vars

\* The step is the one of a _cleanup_stream run for stream s that removes
\* the engine's entries of the call.
CleanupGateStepOf(s) ==
  \/ drainPc[s] = "c_gate" /\ drainPc'[s] = "c_sess"
  \/ stopPc = "c_gate" /\ stopPc' = "c_sess" /\ stopSid = s
  \/ reapPc = "c_gate" /\ reapPc' = "c_sess" /\ reapSid = s

(***************************************************************************)
(* C37: the cleanup of one stream touches that stream only. For a stream   *)
(* started after stop_streaming_playback has returned: its record, its     *)
(* jitter buffer entry, its startup flag and its gating token are removed  *)
(* by a cleanup run for this very stream, never by the cleanup of an       *)
(* earlier stream that is still in progress.                               *)
(***************************************************************************)
C37_CleanupTouchesOwnStreamOnly ==
  [][\A n \in Streams :
        started_after_stop[n]
          => /\ (active_streams # {} /\ Rec.stream_id = n /\ active_streams' = {})
                  => CleanupGateStepOf(n)
             /\ (jitter_buffers = n /\ jitter_buffers' = 0)
                  => CleanupGateStepOf(n)
             /\ (n \in gating_tokens /\ n \notin gating_tokens')
                  => CleanupGateStepOf(n)]_vars

(***************************************************************************)
(* C40: the drain loop never blocks on its own jitter buffer: each time    *)
(* the loop is about to put a received chunk on its queue, the queue holds *)
(* fewer chunks than its capacity.                                         *)
(***************************************************************************)
C40_PutNeverFindsBufferFull ==
  \A s \in Streams : drainPc[s] = "put" => Len(buf[s]) < JbChunks(cfg)

====
